---- MODULE Spec2Model ----
(***************************************************************************)
(* The correlation / detection engine of the SOaC framework:               *)
(* backend/app/detection/detection_engine.py (class DetectionEngine).      *)
(*                                                                         *)
(* Time is counted in minutes (the unit _parse_time_window returns).       *)
(* Text is modelled by words: a Python test `a in b` on two strings is     *)
(* Sub(a, b), which is equality of words plus the table SubstringPairs of  *)
(* the proper substrings that occur in the vocabulary of the model.        *)
(***************************************************************************)
EXTENDS Integers, Sequences, FiniteSets, TLC

VARIABLES
    models,            \* ModelLoader.models: the catalog, in dict order
    entity_state,      \* DetectionEngine.entity_state
    entity_last_seen,  \* DetectionEngine.entity_last_seen
    stats,             \* DetectionEngine.stats
    db,                \* the incidents table behind DetectionEngine.db
    now,               \* datetime.utcnow() of the latest call, in minutes
    log,               \* history: one entry per finished process_event call
    thr                \* the process_event calls in flight (threadpool workers)

vars == <<models, entity_state, entity_last_seen, stats, db, now, log, thr>>

(***************************************************************************)
(* Bounds                                                                  *)
(***************************************************************************)
MaxCalls == 4
NumUuids == 2
NumThreads == 2

\* Python's None, where a dict (a record) is expected
None == [none |-> TRUE]

Max(a, b) == IF a >= b THEN a ELSE b

(***************************************************************************)
(* Text                                                                    *)
(***************************************************************************)
\* str.lower() on the words of the model
Lower(s) ==
    CASE s = "FileWrite" -> "filewrite"
      [] s = "Delivery"  -> "delivery"
      [] s = "Execution" -> "execution"
      [] s = "Impact"    -> "impact"
      [] s = "Staging"   -> "staging"
      [] s = "Falcon"    -> "falcon"
      [] s = "Proofpoint" -> "proofpoint"
      [] s = "UserName"  -> "username"
      [] s = "ComputerName" -> "computername"
      [] s = "userPrincipalName" -> "userprincipalname"
      [] OTHER -> s

\* the proper substrings among the (lower-case) words of the model
SubstringPairs ==
    { <<"process", "process_execution">>, <<"process", "processrollup">>,
      <<"cmd", "cmd.exe">>, <<"script", "wscript">>,
      <<"auth", "authentication">>, <<"remote", "remoteaddress">>,
      <<"zip", "payroll.zip">>, <<"ProcessRollup", "ProcessRollup2">> }

\* Python's `a in b` for two strings
Sub(a, b) == a = "" \/ a = b \/ <<a, b>> \in SubstringPairs

\* `a in text` where text is a string made of the given words
InText(a, words) == \E w \in words : Sub(a, w)

(***************************************************************************)
(* The pattern catalog (operational models as parser.py produces them).    *)
(* A phase source is the list of the words of the "source" cell; the       *)
(* correlation window and the trigger condition are texts, kept as what    *)
(* the engine reads of them: the digit groups in order of appearance and,  *)
(* for the window, which of the letters h, m, s the text contains.         *)
(***************************************************************************)
Phase(n, src, ind) == [name |-> n, source |-> src, indicators |-> ind]

Model(i, ps, win, trig) ==
    [id |-> i, name |-> i,
     correlation_pattern |-> [phases |-> ps, correlation_window |-> win],
     alert_policy |-> [trigger_condition |-> trig, severity |-> "High"]]

\* "90 minutes"
Window90 == [numbers |-> <<90>>, letters |-> {"m", "s"}]
\* "0-60 minutes"
Window60 == [numbers |-> <<0, 60>>, letters |-> {"m", "s"}]

\* ">= 3 correlated phases" and the like
Trigger(n) == [numbers |-> <<n>>]

\* every phase row carries a source and an indicator text
RansomwareModel ==
    Model("RANSOMWARE_MODEL",
          << Phase("Delivery",  <<"proofpoint">>, "malicious attachment"),
             Phase("Execution", <<"falcon">>,     "powershell"),
             Phase("Impact",    <<"falcon">>,     "filewrite *.locked") >>,
          Window90, Trigger(3))

\* the same phases with the source and indicator cells mostly left empty
RansomwareLiteModel ==
    Model("RANSOMWARE_LITE_MODEL",
          << Phase("Delivery",  <<"proofpoint">>, ""),
             Phase("Execution", <<>>,             ""),
             Phase("Impact",    <<>>,             "filewrite *.locked") >>,
          Window90, Trigger(3))

\* a single-phase pattern that triggers on its one phase
PhishingModel ==
    Model("PHISHING_MODEL",
          << Phase("Delivery", <<"proofpoint">>, "") >>,
          Window60, Trigger(1))

\* the catalogs the loader may hold, each in dict (insertion) order
Catalogs ==
    { << RansomwareModel, PhishingModel >>,
      << RansomwareLiteModel, PhishingModel >> }

(***************************************************************************)
(* Normalized events (event_processor.py), with the fields the engine      *)
(* reads; an absent field is the empty string.                             *)
(***************************************************************************)
Event(src, type, user, cmd, file) ==
    [source |-> src, event_type |-> type, UserName |-> user,
     ComputerName |-> "ws1", aip |-> "", CommandLine |-> cmd,
     FileName |-> file]

EmailEvent(u)     == Event("proofpoint", "email", u, "", "")
PowershellEvent(u) == Event("falcon", "process_execution", u, "powershell", "")
FileWriteEvent(u) == Event("falcon", "FileWrite", u, "", "report.locked")
NetworkEvent(u)   == Event("paloalto", "network", u, "", "")

Events ==
    { EmailEvent("alice"), PowershellEvent("alice"), FileWriteEvent("alice"),
      NetworkEvent("alice"), PowershellEvent("bob") }

\* the instants at which a call may arrive, in minutes
Times == {0, 10, 20, 25, 100}

\* the words of str(event.values()).lower()
EventText(event) == { Lower(event[f]) : f \in DOMAIN event }

(***************************************************************************)
(* Dictionaries.  entity_state is a function whose DOMAIN is the set of    *)
(* keys present (defaultdict: a key appears when it is first indexed for   *)
(* writing); the innermost dict {phase name: [occurrences]} keeps its      *)
(* insertion order, which .items() iterates, as a sequence of items.       *)
(***************************************************************************)
Put(f, k, v) == [x \in (DOMAIN f) \cup {k} |-> IF x = k THEN v ELSE f[x]]

Keys(d) == { d[i].name : i \in DOMAIN d }

ItemIndex(d, n) == CHOOSE i \in DOMAIN d : d[i].name = n

\* d[n].append(occ) on a defaultdict(list)
AppendTo(d, n, occ) ==
    IF n \in Keys(d)
    THEN [d EXCEPT ![ItemIndex(d, n)].events = Append(@, occ)]
    ELSE Append(d, [name |-> n, events |-> <<occ>>])

RECURSIVE Filter(_, _)
\* [e for e in list if e["timestamp"] > cutoff_time]
Filter(list, cutoff_time) ==
    IF list = <<>> THEN <<>>
    ELSE IF Head(list).timestamp > cutoff_time
         THEN <<Head(list)>> \o Filter(Tail(list), cutoff_time)
         ELSE Filter(Tail(list), cutoff_time)

\* a join that keeps the first occurrence of every list only
ConcatFirsts(lists) ==
    [i \in DOMAIN lists |-> Head(lists[i])]

RECURSIVE Concat(_)
Concat(lists) ==
    IF lists = <<>> THEN <<>> ELSE Head(lists) \o Concat(Tail(lists))

RECURSIVE SelectSeqOf(_, _)
\* the items of d whose list is not empty, in order
SelectSeqOf(d, i) ==
    IF i > Len(d) THEN <<>>
    ELSE IF d[i].events # <<>>
         THEN <<d[i]>> \o SelectSeqOf(d, i + 1)
         ELSE SelectSeqOf(d, i + 1)

\* the (entity, model) state, <<>> when a key is absent; reading creates nothing
StateOf(st, entity_key, model_id) ==
    IF entity_key \in DOMAIN st /\ model_id \in DOMAIN st[entity_key]
    THEN st[entity_key][model_id] ELSE <<>>

(***************************************************************************)
(* DetectionEngine                                                         *)
(***************************************************************************)
\* dict.get(k), the empty string standing for None (both are falsy)
Get(d, k) == IF k \in DOMAIN d THEN d[k] ELSE ""

\* Python's `a or b` on two strings
Or(a, b) == IF a # "" THEN a ELSE b

\* a key that carries the address whenever the event has one
ExtractEntityKeyWithIp(event) ==
    (IF Get(event, "UserName") # ""
     THEN << <<"user", Get(event, "UserName")>> >> ELSE <<>>)
    \o (IF Get(event, "ComputerName") # ""
        THEN << <<"host", Get(event, "ComputerName")>> >> ELSE <<>>)
    \o (IF Get(event, "aip") # "" THEN << <<"ip", Get(event, "aip")>> >> ELSE <<>>)

\* _extract_entity_key: the parts that "|".join glues together
ExtractEntityKey(event) ==
    LET username == Or(Get(event, "UserName"),
                       Or(Get(event, "UserPrincipalName"), Get(event, "user")))
        computer == Or(Get(event, "ComputerName"),
                       Or(Get(event, "hostname"), Get(event, "host")))
        ip       == Or(Get(event, "aip"),
                       Or(Get(event, "RemoteAddressIP4"), Get(event, "ip")))
        parts    == (IF username # "" THEN << <<"user", username>> >> ELSE <<>>)
                    \o (IF computer # "" THEN << <<"host", computer>> >> ELSE <<>>)
                    \o (IF ip # "" /\ username = "" /\ computer = ""
                        THEN << <<"ip", ip>> >> ELSE <<>>)
    IN  IF parts = <<>>
        THEN << <<"event", IF "event_id" \in DOMAIN event THEN event.event_id
                           ELSE "unknown">> >>
        ELSE parts

Vendors == {"falcon", "paloalto", "entraid", "umbrella", "proofpoint"}

IndicatorKeywords ==
    { "powershell", "cmd.exe", "wscript", "rundll32",
      "processrollup", "filewrite", "dataStaged",
      "networkconnect", "remoteaddress", "putobject",
      "authentication", "login", "signin",
      "upload", "download", "transfer" }

PhaseKeywords ==
    [ delivery       |-> {"email", "attachment", "proofpoint"},
      execution      |-> {"process", "cmd", "powershell", "script"},
      network        |-> {"connection", "outbound", "remote", "c2"},
      persistence    |-> {"filewrite", "service", "startup", "registry"},
      staging        |-> {"zip", "rar", "archive", "staged"},
      transfer       |-> {"upload", "download", "exfil"},
      authentication |-> {"login", "auth", "signin", "mfa"},
      privilege      |-> {"admin", "elevate", "privilege"},
      lateral        |-> {"smb", "rdp", "wmi", "movement"},
      discovery      |-> {"recon", "whoami", "ipconfig", "enum"} ]

\* the events of the model have no "_" in their source: split('_')[0] is the source
SourceHead(source) == source

SourceMatch(event, phase) ==
    LET source       == Lower(event.source)
        phase_source == { Lower(phase.source[i]) : i \in DOMAIN phase.source }
    IN  /\ source # ""
        /\ \E s \in Vendors : Sub(s, source)
        /\ \E s \in Vendors : InText(s, phase_source)
        /\ \/ InText(SourceHead(source), phase_source)
           \/ Sub(Lower(phase.source[1]), source)

IndicatorMatch(event, phase) ==
    LET text == EventText(event)
    IN  /\ Lower(phase.indicators) # ""
        /\ \E keyword \in IndicatorKeywords : InText(keyword, text)

PhaseKeywordMatch(event, phase) ==
    LET text       == EventText(event)
        phase_name == Lower(phase.name)
    IN  \E keyword_group \in DOMAIN PhaseKeywords :
            /\ Sub(keyword_group, phase_name)
            /\ \E kw \in PhaseKeywords[keyword_group] : InText(kw, text)

\* the test at the end of the loop body of _match_phase
PhaseSatisfied(event, phase) ==
    SourceMatch(event, phase) \/ IndicatorMatch(event, phase)
        \/ PhaseKeywordMatch(event, phase)

\* _match_phase: the first phase, in pattern order, that the event satisfies
MatchPhase(event, phases) ==
    IF \E i \in DOMAIN phases : PhaseSatisfied(event, phases[i])
    THEN phases[CHOOSE i \in DOMAIN phases :
                    /\ PhaseSatisfied(event, phases[i])
                    /\ \A j \in 1..(i - 1) : ~PhaseSatisfied(event, phases[j])]
    ELSE None

\* _parse_time_window ('hour' in s or 'h' in s  is  'h' in s, and so on)
ParseTimeWindow(window_str) ==
    IF window_str.numbers = <<>> THEN 60
    ELSE LET value == window_str.numbers[Len(window_str.numbers)]
         IN  IF "h" \in window_str.letters THEN value * 60
             ELSE IF "m" \in window_str.letters THEN value
             ELSE IF "s" \in window_str.letters THEN Max(1, value \div 60)
             ELSE value

\* the window of a pattern, in minutes
WindowOf(model) == ParseTimeWindow(model.correlation_pattern.correlation_window)

\* the threshold _check_incident_threshold reads from the trigger condition
ParseThreshold(model) ==
    LET trigger == model.alert_policy.trigger_condition
    IN  IF trigger.numbers # <<>> THEN trigger.numbers[1] ELSE 3

\* the append of _match_against_model
Record(st, entity_key, model_id, occ) ==
    LET byModel == IF entity_key \in DOMAIN st THEN st[entity_key] ELSE <<>>
        d       == IF model_id \in DOMAIN byModel THEN byModel[model_id] ELSE <<>>
    IN  Put(st, entity_key, Put(byModel, model_id, AppendTo(d, occ.phase, occ)))

\* a filter that hands the survivors back newest first
PrunedReversed(d, cutoff_time) ==
    [i \in DOMAIN d |->
        [d[i] EXCEPT !.events =
            LET kept == Filter(@, cutoff_time)
            IN  [k \in 1..Len(kept) |-> kept[Len(kept) + 1 - k]]]]

\* the filter _clean_old_events applies to every phase list
Pruned(d, cutoff_time) ==
    [i \in DOMAIN d |-> [d[i] EXCEPT !.events = Filter(@, cutoff_time)]]

\* a prune that removes nothing
CleanOldEventsSkipped(st, entity_key, model_id, correlation_pattern, t) == st

\* a prune that ignores the window of the pattern: one minute for all
CleanOldEventsOneMinute(st, entity_key, model_id, correlation_pattern, t) ==
    IF entity_key \in DOMAIN st /\ model_id \in DOMAIN st[entity_key]
    THEN [st EXCEPT ![entity_key][model_id] = Pruned(@, t - 1)]
    ELSE st

\* _clean_old_events
CleanOldEvents(st, entity_key, model_id, correlation_pattern, t) ==
    LET window_minutes == ParseTimeWindow(correlation_pattern.correlation_window)
        cutoff_time    == t - window_minutes
    IN  IF entity_key \in DOMAIN st /\ model_id \in DOMAIN st[entity_key]
        THEN [st EXCEPT ![entity_key][model_id] = Pruned(@, cutoff_time)]
        ELSE st

\* a clear() that leaves the state as it is
ClearStateSkipped(st, entity_key, model_id) == st

\* the clear() of _check_incident_threshold
ClearState(st, entity_key, model_id) ==
    IF entity_key \in DOMAIN st /\ model_id \in DOMAIN st[entity_key]
    THEN [st EXCEPT ![entity_key][model_id] = <<>>]
    ELSE st

\* buckets with strict bounds
ConfidenceStrict(matched, total_phases) ==
    IF total_phases > 0 /\ matched * 100 > 80 * total_phases THEN "high"
    ELSE IF total_phases > 0 /\ matched * 100 > 50 * total_phases THEN "medium"
    ELSE "low"

\* confidence_pct = matched / total_phases * 100, compared with 80 and 50
Confidence(matched, total_phases) ==
    IF total_phases > 0 /\ matched * 100 >= 80 * total_phases THEN "high"
    ELSE IF total_phases > 0 /\ matched * 100 >= 50 * total_phases THEN "medium"
    ELSE "low"

\* a threshold test that is one phase too lenient
ThresholdMetEarly(matched, threshold) == matched + 1 >= threshold

\* the test `len(phases_matched) >= threshold`
ThresholdMet(matched, threshold) == matched >= threshold

\* _check_incident_threshold up to the construction of incident_data
BuildIncident(st, entity_key, model, t, uuid) ==
    LET d              == StateOf(st, entity_key, model.id)
        items          == SelectSeqOf(d, 1)
        phases_matched == [i \in DOMAIN items |-> items[i].name]
        all_events     == Concat([i \in DOMAIN items |-> items[i].events])
    IN  IF ThresholdMet(Len(phases_matched), ParseThreshold(model))
        THEN [ incident_id      |-> uuid,
               pattern_id       |-> model.id,
               entity_key       |-> entity_key,
               phases_matched   |-> phases_matched,
               confidence_level |->
                   Confidence(Len(phases_matched),
                              Len(model.correlation_pattern.phases)),
               event_count      |-> Len(all_events),
               events           |-> all_events,
               severity         |-> model.alert_policy.severity,
               status           |-> "open",
               created_at       |-> t ]
        ELSE None

\* the record _match_against_model appends; call stands for the identity of
\* the dict object (two calls build two objects, also from equal events)
Occurrence(event, t, phase_name, call) ==
    [event |-> event, timestamp |-> t, phase |-> phase_name, call |-> call]

\* a save that commits the incident twice
SaveIncidentTwice(table, incident_data, commits) ==
    IF commits THEN table \o <<incident_data, incident_data>> ELSE table

\* _save_incident: commit, or rollback when the session raises
SaveIncident(table, incident_data, commits) ==
    IF commits THEN Append(table, incident_data) ELSE table

RECURSIVE RunModels(_, _, _, _, _, _, _, _, _)
\* the loop of process_event from the i-th model on, with the body of
\* _match_against_model; it stops at the first incident
RunModels(catalog, i, event, entity_key, st, matched, t, call, uuid) ==
    IF i > Len(catalog)
    THEN [entity_state |-> st, result |-> None, patterns_matched |-> matched]
    ELSE
      LET model               == catalog[i]
          correlation_pattern == model.correlation_pattern
          phases              == correlation_pattern.phases
          matched_phase       == IF phases = <<>> THEN None
                                 ELSE MatchPhase(event, phases)
      IN  IF matched_phase = None
          THEN RunModels(catalog, i + 1, event, entity_key, st, matched,
                         t, call, uuid)
          ELSE
            LET st1 == Record(st, entity_key, model.id,
                              Occurrence(event, t, matched_phase.name, call))
                st2 == CleanOldEvents(st1, entity_key, model.id,
                                      correlation_pattern, t)
                incident == BuildIncident(st2, entity_key, model, t, uuid)
            IN  IF incident # None
                THEN [entity_state     |-> ClearState(st2, entity_key, model.id),
                      result           |-> incident,
                      patterns_matched |-> matched + 1]
                ELSE RunModels(catalog, i + 1, event, entity_key, st2,
                               matched + 1, t, call, uuid)

\* what the history keeps of one finished call
LogEntry(call, event, entity_key, t, result, saved) ==
    [call |-> call, event |-> event, entity_key |-> entity_key, time |-> t,
     result |-> result, saved |-> saved]

\* a worker of the threadpool that serves the route /detection/process-event
IdleThread ==
    [pc |-> "idle", event |-> None, entity_key |-> <<>>, call |-> 0,
     i |-> 0, n |-> 0, j |-> 0, name |-> "", filtered |-> <<>>,
     incident |-> None, saved |-> FALSE, recorded |-> {}]

Threads == 1..NumThreads

Init ==
    /\ models \in Catalogs
    /\ entity_state = <<>>
    /\ entity_last_seen = <<>>
    /\ stats = [events_processed |-> 0, incidents_created |-> 0,
                patterns_matched |-> 0]
    /\ db = <<>>
    /\ now = -1
    /\ log = <<>>
    /\ thr = [w \in Threads |-> IdleThread]

\* process_event, run to completion by one caller at the instant t
ProcessEvent(event, t) ==
    /\ Len(log) < MaxCalls
    /\ t > now
    /\ now' = t
    /\ LET entity_key == ExtractEntityKey(event)
           call       == Len(log) + 1
       IN  \E run \in {RunModels(models, 1, event, entity_key, entity_state,
                                 stats.patterns_matched, t, call, 0)} :
           /\ entity_state' = run.entity_state
           /\ entity_last_seen' = Put(entity_last_seen, entity_key, t)
           /\ stats' = [events_processed  |-> stats.events_processed + 1,
                        incidents_created |-> stats.incidents_created
                              + (IF run.result # None THEN 1 ELSE 0),
                        patterns_matched  |-> run.patterns_matched]
           /\ IF run.result = None
              THEN /\ db' = db
                   /\ log' = Append(log, LogEntry(call, event, entity_key, t,
                                                  None, FALSE))
              ELSE \E uuid \in 1..NumUuids, commits \in BOOLEAN :
                     LET incident == [run.result EXCEPT !.incident_id = uuid]
                     IN  /\ db' = SaveIncident(db, incident, commits)
                         /\ log' = Append(log, LogEntry(call, event, entity_key,
                                                        t, incident, commits))
    /\ UNCHANGED <<models, thr>>

Next ==
    \E event \in Events, t \in Times : ProcessEvent(event, t)

Spec == Init /\ [][Next]_vars

(***************************************************************************)
(* Concurrent requests.  The routes are plain `def` endpoints, which the   *)
(* server runs on threadpool workers, and get_detection_engine hands every *)
(* request the same engine, which takes no lock.  Each worker runs one     *)
(* process_event call; a step is a stretch of the call between two points  *)
(* where the interpreter may switch threads.  The calls overlap within one *)
(* instant of the clock.                                                   *)
(***************************************************************************)
\* the exception a dict iterator raises when the dict changed size
Raised == [raised |-> "RuntimeError"]

\* d[n] = list
SetItem(d, n, list) ==
    IF n \in Keys(d)
    THEN [d EXCEPT ![ItemIndex(d, n)].events = list]
    ELSE Append(d, [name |-> n, events |-> list])

\* the call leaves process_event with the given result
Finish(w, result, saved) ==
    /\ log' = Append(log, LogEntry(thr[w].call, thr[w].event,
                                   thr[w].entity_key, now, result, saved))
    /\ thr' = [thr EXCEPT ![w].pc = "done"]

\* process_event up to the loop over the models
Start(w, event) ==
    /\ thr[w].pc = "idle"
    /\ stats' = [stats EXCEPT !.events_processed = @ + 1]
    /\ entity_last_seen' = Put(entity_last_seen, ExtractEntityKey(event), now)
    /\ thr' = [thr EXCEPT ![w] = [IdleThread EXCEPT
                                    !.pc = "match", !.event = event,
                                    !.entity_key = ExtractEntityKey(event),
                                    !.call = stats.events_processed + 1,
                                    !.i = 1]]
    /\ UNCHANGED <<models, entity_state, db, now, log>>

\* the next model of the loop: _match_phase and the append, or the return None
Match(w) ==
    /\ thr[w].pc = "match"
    /\ IF thr[w].i > Len(models)
       THEN /\ Finish(w, None, FALSE)
            /\ UNCHANGED <<entity_state, stats>>
       ELSE LET model         == models[thr[w].i]
                phases        == model.correlation_pattern.phases
                matched_phase == IF phases = <<>> THEN None
                                 ELSE MatchPhase(thr[w].event, phases)
                occ           == Occurrence(thr[w].event, now,
                                            matched_phase.name, thr[w].call)
            IN  IF matched_phase = None
                THEN /\ thr' = [thr EXCEPT ![w].i = @ + 1]
                     /\ UNCHANGED <<entity_state, stats, log>>
                ELSE /\ entity_state' = Record(entity_state, thr[w].entity_key,
                                               model.id, occ)
                     /\ stats' = [stats EXCEPT !.patterns_matched = @ + 1]
                     /\ thr' = [thr EXCEPT
                                  ![w].pc = "clean",
                                  ![w].j = 1,
                                  ![w].n = Len(StateOf(entity_state',
                                                       thr[w].entity_key, model.id)),
                                  ![w].recorded = @ \cup
                                      {[entity_key |-> thr[w].entity_key,
                                        model_id |-> model.id, occ |-> occ]}]
                     /\ UNCHANGED log
    /\ UNCHANGED <<models, entity_last_seen, db, now>>

\* one turn of the loop of _clean_old_events: the iterator's next() and the
\* list comprehension over the phase's list
CleanNext(w) ==
    /\ thr[w].pc = "clean"
    /\ LET model  == models[thr[w].i]
           d      == StateOf(entity_state, thr[w].entity_key, model.id)
           cutoff == now - WindowOf(model)
       IN  IF Len(d) # thr[w].n
           THEN Finish(w, Raised, FALSE)
           ELSE /\ thr' = IF thr[w].j > thr[w].n
                          THEN [thr EXCEPT ![w].pc = "check"]
                          ELSE [thr EXCEPT
                                  ![w].pc = "clean_write",
                                  ![w].name = d[thr[w].j].name,
                                  ![w].filtered = Filter(d[thr[w].j].events, cutoff)]
                /\ UNCHANGED log
    /\ UNCHANGED <<models, entity_state, entity_last_seen, stats, db, now>>

\* the assignment that ends the turn
CleanWrite(w) ==
    /\ thr[w].pc = "clean_write"
    /\ entity_state' =
           [entity_state EXCEPT ![thr[w].entity_key][models[thr[w].i].id] =
                SetItem(@, thr[w].name, thr[w].filtered)]
    /\ thr' = [thr EXCEPT ![w].pc = "clean", ![w].j = @ + 1]
    /\ UNCHANGED <<models, entity_last_seen, stats, db, now, log>>

\* _check_incident_threshold up to incident_data
Check(w) ==
    /\ thr[w].pc = "check"
    /\ \E uuid \in 1..NumUuids :
         LET incident == BuildIncident(entity_state, thr[w].entity_key,
                                       models[thr[w].i], now, uuid)
         IN  thr' = IF incident = None
                    THEN [thr EXCEPT ![w].pc = "match", ![w].i = @ + 1]
                    ELSE [thr EXCEPT ![w].pc = "save", ![w].incident = incident]
    /\ UNCHANGED <<models, entity_state, entity_last_seen, stats, db, now, log>>

\* _save_incident
Save(w) ==
    /\ thr[w].pc = "save"
    /\ \E commits \in BOOLEAN :
         /\ db' = SaveIncident(db, thr[w].incident, commits)
         /\ thr' = [thr EXCEPT ![w].pc = "clear", ![w].saved = commits]
    /\ UNCHANGED <<models, entity_state, entity_last_seen, stats, now, log>>

\* the clear(), the incidents_created count and the return of the incident
ClearAndReturn(w) ==
    /\ thr[w].pc = "clear"
    /\ entity_state' = ClearState(entity_state, thr[w].entity_key,
                                  models[thr[w].i].id)
    /\ stats' = [stats EXCEPT !.incidents_created = @ + 1]
    /\ Finish(w, thr[w].incident, thr[w].saved)
    /\ UNCHANGED <<models, entity_last_seen, db, now>>

InitConc ==
    /\ models \in Catalogs
    /\ entity_state = <<>>
    /\ entity_last_seen = <<>>
    /\ stats = [events_processed |-> 0, incidents_created |-> 0,
                patterns_matched |-> 0]
    /\ db = <<>>
    /\ now = 0
    /\ log = <<>>
    /\ thr = [w \in Threads |-> IdleThread]

NextConc ==
    \E w \in Threads :
        \/ \E event \in Events : Start(w, event)
        \/ Match(w)
        \/ CleanNext(w)
        \/ CleanWrite(w)
        \/ Check(w)
        \/ Save(w)
        \/ ClearAndReturn(w)

SpecConc == InitConc /\ [][NextConc]_vars

(***************************************************************************)
(* Vocabulary of the properties                                            *)
(***************************************************************************)
ModelById(id) == models[CHOOSE i \in DOMAIN models : models[i].id = id]

Elems(list) == { list[i] : i \in DOMAIN list }

\* the occurrences stored for one (entity, pattern) pair
StoredOccurrences(entity_key, model_id) ==
    LET d == StateOf(entity_state, entity_key, model_id)
    IN  UNION { Elems(d[i].events) : i \in DOMAIN d }

\* the phase names holding at least one stored occurrence
ActivePhases(entity_key, model_id) ==
    { occ.phase : occ \in StoredOccurrences(entity_key, model_id) }

StoredPairs ==
    { <<k, m>> : k \in DOMAIN entity_state, m \in { x.id : x \in Elems(models) } }

IsIncident(result) == "incident_id" \in DOMAIN result

LastCall == log[Len(log)]

\* the call recorded an occurrence for the pattern, or built its incident from one
Evaluated(c, model_id) ==
    \/ \E occ \in StoredOccurrences(c.entity_key, model_id) : occ.call = c.call
    \/ /\ IsIncident(c.result)
       /\ c.result.pattern_id = model_id

\* the occurrence of call c for the given phase is in the state or in c's incident
Kept(c, model_id, phase_name) ==
    \/ \E occ \in StoredOccurrences(c.entity_key, model_id) :
           occ.call = c.call /\ occ.phase = phase_name
    \/ /\ IsIncident(c.result)
       /\ c.result.pattern_id = model_id
       /\ \E occ \in Elems(c.result.events) :
              occ.call = c.call /\ occ.phase = phase_name

(***************************************************************************)
(* C1: an incident is synthesized for an (entity, pattern) pair only from  *)
(* occurrences stored for that pair by calls for that entity, and only     *)
(* when they span at least as many distinct phases as the pattern's        *)
(* threshold; with fewer distinct phases no incident is returned.          *)
(***************************************************************************)
C1_IncidentOnlyAtThreshold ==
    \A i \in DOMAIN log :
        IsIncident(log[i].result) =>
            LET inc    == log[i].result
                stored == { occ \in Elems(inc.events) :
                              \E j \in 1..i :
                                  /\ log[j].call = occ.call
                                  /\ log[j].entity_key = inc.entity_key
                                  /\ log[j].event = occ.event
                                  /\ log[j].time = occ.timestamp }
            IN  /\ inc.entity_key = log[i].entity_key
                /\ Cardinality({ occ.phase : occ \in stored })
                       >= ParseThreshold(ModelById(inc.pattern_id))

C1_Witness ==
    \E i \in DOMAIN log :
        /\ IsIncident(log[i].result)
        /\ ParseThreshold(ModelById(log[i].result.pattern_id)) = 3
        /\ Elems(log[i].result.phases_matched) = {"Delivery", "Execution", "Impact"}

(***************************************************************************)
(* C2 as stated: between calls no (entity, pattern) state holds T or more  *)
(* distinct phases (reaching T returned the incident and cleared it), and  *)
(* the same event processed again right after an incident returns no       *)
(* second incident for that pattern -- for every threshold T.              *)
(***************************************************************************)
C2_AtRest ==
    \A p \in StoredPairs :
        Cardinality(ActivePhases(p[1], p[2]))
            <= Max(ParseThreshold(ModelById(p[2])) - 1, 0)

C2_NoSecondIncident(minT) ==
    \A i \in DOMAIN log :
        ( /\ i > 1
          /\ IsIncident(log[i - 1].result)
          /\ ParseThreshold(ModelById(log[i - 1].result.pattern_id)) >= minT
          /\ log[i].event = log[i - 1].event )
        => ~ ( /\ IsIncident(log[i].result)
               /\ log[i].result.pattern_id = log[i - 1].result.pattern_id )

C2_Original == C2_AtRest /\ C2_NoSecondIncident(0)

(***************************************************************************)
(* C2 amended: the same, for patterns whose threshold is at least 2.       *)
(***************************************************************************)
C2_Amended == C2_AtRest /\ C2_NoSecondIncident(2)

C2_Witness ==
    /\ Len(log) = 4
    /\ IsIncident(log[3].result)
    /\ ParseThreshold(ModelById(log[3].result.pattern_id)) = 3
    /\ log[4].event = log[3].event
    /\ ~IsIncident(log[4].result)
    /\ StoredOccurrences(log[3].entity_key, log[3].result.pattern_id) # {}

(***************************************************************************)
(* C3: when saving the incident fails, the state of the (entity, pattern)  *)
(* pair still holds its occurrences after the call.                        *)
(***************************************************************************)
C3_StateKeptOnFailedSave ==
    ( /\ Len(log) > 0
      /\ IsIncident(LastCall.result)
      /\ ~LastCall.saved )
    => \A occ \in Elems(LastCall.result.events) :
           occ \in StoredOccurrences(LastCall.entity_key,
                                     LastCall.result.pattern_id)

(***************************************************************************)
(* C4: after a call, every loaded pattern one of whose phases the event    *)
(* satisfies holds an occurrence of that call (or built its incident from  *)
(* it), also the patterns after the one that produced the incident.        *)
(***************************************************************************)
C4_EveryPatternRecords ==
    Len(log) > 0 =>
        \A i \in DOMAIN models :
            MatchPhase(LastCall.event, models[i].correlation_pattern.phases) # None
                => Evaluated(LastCall, models[i].id)

(***************************************************************************)
(* C5: after a call, every phase the event satisfies in a pattern the call *)
(* evaluated holds an occurrence of that call, not only the first one.     *)
(***************************************************************************)
C5_EveryPhaseRecords ==
    Len(log) > 0 =>
        \A i \in DOMAIN models :
            Evaluated(LastCall, models[i].id) =>
                \A j \in DOMAIN models[i].correlation_pattern.phases :
                    LET phase == models[i].correlation_pattern.phases[j]
                    IN  PhaseSatisfied(LastCall.event, phase)
                            => Kept(LastCall, models[i].id, phase.name)

(***************************************************************************)
(* C6: with a first pattern of phases delivery, execution, impact,         *)
(* threshold 3 and a 90-minute window, an email event at 0, a powershell   *)
(* process execution at 10 and a ".locked" file write at 20 for one user   *)
(* make the third call return that pattern's incident with the three       *)
(* phases and confidence high; the same file write at 25 returns none.     *)
(***************************************************************************)
C6_Pattern(model) ==
    /\ [i \in DOMAIN model.correlation_pattern.phases |->
            Lower(model.correlation_pattern.phases[i].name)]
           = <<"delivery", "execution", "impact">>
    /\ ParseThreshold(model) = 3
    /\ WindowOf(model) = 90

C6_Scenario(u) ==
    /\ Len(log) >= 3
    /\ log[1].event = EmailEvent(u)      /\ log[1].time = 0
    /\ log[2].event = PowershellEvent(u) /\ log[2].time = 10
    /\ log[3].event = FileWriteEvent(u)  /\ log[3].time = 20

C6_RansomwareScenario ==
    \A u \in {"alice", "bob"} :
        (C6_Pattern(models[1]) /\ C6_Scenario(u)) =>
            /\ IsIncident(log[3].result)
            /\ log[3].result.pattern_id = models[1].id
            /\ Elems(log[3].result.phases_matched)
                   = { models[1].correlation_pattern.phases[i].name : i \in 1..3 }
            /\ Len(log[3].result.phases_matched) = 3
            /\ log[3].result.confidence_level = "high"
            /\ ( /\ Len(log) >= 4
                 /\ log[4].event = FileWriteEvent(u)
                 /\ log[4].time = 25 ) => ~IsIncident(log[4].result)

(***************************************************************************)
(* C7: pruning runs after the record and before the threshold check: the   *)
(* occurrences an incident is built from, and the occurrences left in a    *)
(* state the call evaluated, are all within the pattern's window at the    *)
(* instant of the call; two events of one entity at 0 and at 100 never     *)
(* make an incident of a pattern with a 90-minute window and a threshold   *)
(* of 2 or more.                                                           *)
(***************************************************************************)
C7_CountedWithinWindow ==
    /\ \A i \in DOMAIN log :
           IsIncident(log[i].result) =>
               \A occ \in Elems(log[i].result.events) :
                   log[i].time - occ.timestamp
                       <= WindowOf(ModelById(log[i].result.pattern_id))
    /\ Len(log) > 0 =>
           \A i \in DOMAIN models :
               Evaluated(LastCall, models[i].id) =>
                   \A occ \in StoredOccurrences(LastCall.entity_key, models[i].id) :
                       LastCall.time - occ.timestamp <= WindowOf(models[i])
    /\ ( /\ Len(log) = 2
         /\ log[1].time = 0 /\ log[2].time = 100
         /\ log[1].entity_key = log[2].entity_key
         /\ WindowOf(models[1]) = 90 /\ ParseThreshold(models[1]) >= 2 )
       => /\ ~ ( IsIncident(log[2].result)
                 /\ log[2].result.pattern_id = models[1].id )
          /\ Cardinality(ActivePhases(log[2].entity_key, models[1].id)) <= 1

C7_Witness ==
    /\ Len(log) = 2
    /\ log[1].event = EmailEvent("alice")      /\ log[1].time = 0
    /\ log[2].event = PowershellEvent("alice") /\ log[2].time = 100
    /\ models[1] = RansomwareLiteModel
    /\ ActivePhases(log[2].entity_key, models[1].id) = {"Execution"}

(***************************************************************************)
(* C8: right after a call that pruned, every stored occurrence of every    *)
(* (entity, pattern) state is within the window of its pattern.            *)
(***************************************************************************)
C8_AllStatesWithinWindow ==
    ( /\ Len(log) > 0
      /\ \E i \in DOMAIN models : Evaluated(LastCall, models[i].id) )
    => \A p \in StoredPairs :
           \A occ \in StoredOccurrences(p[1], p[2]) :
               now - occ.timestamp <= WindowOf(ModelById(p[2]))

\* the incidents built so far, each with the call that built it
Synthesized ==
    { [call |-> log[i].call, incident |-> log[i].result] :
          i \in { x \in DOMAIN log : IsIncident(log[x].result) } }
    \cup { [call |-> thr[w].call, incident |-> thr[w].incident] :
               w \in { x \in Threads : thr[x].pc \in {"save", "clear"} } }

(***************************************************************************)
(* C9: whatever the interleaving of the concurrent calls, no two calls     *)
(* build incidents from the same occurrences.                              *)
(***************************************************************************)
C9_NoDoubleFire ==
    \A a \in Synthesized, b \in Synthesized :
        a.call # b.call =>
            Elems(a.incident.events) \cap Elems(b.incident.events) = {}

(***************************************************************************)
(* C10: whatever the interleaving, every occurrence a call has recorded is *)
(* in the state of its (entity, pattern) pair or in an incident built for  *)
(* that pair.                                                              *)
(***************************************************************************)
C10_NoOccurrenceLost ==
    \A w \in Threads :
        \A r \in thr[w].recorded :
            \/ r.occ \in StoredOccurrences(r.entity_key, r.model_id)
            \/ \E a \in Synthesized :
                   /\ a.incident.entity_key = r.entity_key
                   /\ a.incident.pattern_id = r.model_id
                   /\ r.occ \in Elems(a.incident.events)

(***************************************************************************)
(* Catalog reload (model_loader.py).  The route /operational-models/reload *)
(* is a plain `def` endpoint as well, so reload_models runs on one worker  *)
(* while process_event calls run on the others; the engine iterates the    *)
(* loader's own dict (get_all_models returns self.models, not a copy).     *)
(* A dict iterator remembers the size of the dict when it is created and   *)
(* raises RuntimeError at the next() that finds another size.              *)
(***************************************************************************)
\* self.models[model_data["id"]] = model_data
PutModel(ms, model_data) ==
    IF \E i \in DOMAIN ms : ms[i].id = model_data.id
    THEN [i \in DOMAIN ms |-> IF ms[i].id = model_data.id THEN model_data ELSE ms[i]]
    ELSE Append(ms, model_data)

\* the worker that serves /reload, and the workers that serve /process-event
Readers == { w \in Threads : w > 1 }

IdleLoader == [pc |-> "idle", files |-> <<>>, old |-> <<>>]

IdleReader ==
    [pc |-> "idle", event |-> None, entity_key |-> <<>>, call |-> 0,
     i |-> 0, n |-> 0, seen |-> <<>>, result |-> None]

\* reload_models: self.models.clear(), then the glob of load_all_models
ReloadClear(w, files) ==
    /\ w \notin Readers
    /\ thr[w].pc = "idle"
    /\ models' = <<>>
    /\ thr' = [thr EXCEPT ![w] = [pc    |-> IF files = <<>> THEN "done" ELSE "load",
                                  files |-> files,
                                  old   |-> models]]
    /\ UNCHANGED <<entity_state, entity_last_seen, stats, db, now, log>>

\* one turn of the loop of load_all_models: the file parses, or the parser
\* raises and the file is skipped
LoadNext(w) ==
    /\ w \notin Readers
    /\ thr[w].pc = "load"
    /\ \E parsed \in BOOLEAN :
         models' = IF parsed THEN PutModel(models, Head(thr[w].files)) ELSE models
    /\ thr' = [thr EXCEPT ![w].files = Tail(@),
                          ![w].pc = IF Tail(thr[w].files) = <<>> THEN "done"
                                    ELSE "load"]
    /\ UNCHANGED <<entity_state, entity_last_seen, stats, db, now, log>>

\* the call returns (or raises): its result goes to the history
ReaderFinish(w, seen, result, saved) ==
    /\ log' = Append(log, LogEntry(thr[w].call, thr[w].event,
                                   thr[w].entity_key, now, result, saved))
    /\ thr' = [thr EXCEPT ![w].pc = "done", ![w].seen = seen,
                          ![w].result = result]

\* process_event up to the creation of the iterator over the catalog
IterStart(w, event) ==
    /\ w \in Readers
    /\ thr[w].pc = "idle"
    /\ stats' = [stats EXCEPT !.events_processed = @ + 1]
    /\ entity_last_seen' = Put(entity_last_seen, ExtractEntityKey(event), now)
    /\ thr' = [thr EXCEPT ![w] = [IdleReader EXCEPT
                                    !.pc = "iterate", !.event = event,
                                    !.entity_key = ExtractEntityKey(event),
                                    !.call = stats.events_processed + 1,
                                    !.i = 1, !.n = Len(models)]]
    /\ UNCHANGED <<models, entity_state, db, now, log>>

\* one turn of the loop of process_event: the iterator's next() and the
\* whole of _match_against_model for the model it yields
IterNext(w) ==
    /\ w \in Readers
    /\ thr[w].pc = "iterate"
    /\ IF Len(models) # thr[w].n
       THEN /\ ReaderFinish(w, thr[w].seen, Raised, FALSE)
            /\ UNCHANGED <<entity_state, stats, db>>
       ELSE IF thr[w].i > thr[w].n
       THEN /\ ReaderFinish(w, thr[w].seen, None, FALSE)
            /\ UNCHANGED <<entity_state, stats, db>>
       ELSE LET model == models[thr[w].i]
                seen  == Append(thr[w].seen, model)
                run   == RunModels(<<model>>, 1, thr[w].event, thr[w].entity_key,
                                   entity_state, stats.patterns_matched, now,
                                   thr[w].call, 0)
            IN  /\ entity_state' = run.entity_state
                /\ IF run.result = None
                   THEN /\ stats' = [stats EXCEPT
                                       !.patterns_matched = run.patterns_matched]
                        /\ thr' = [thr EXCEPT ![w].i = @ + 1, ![w].seen = seen]
                        /\ UNCHANGED <<db, log>>
                   ELSE \E uuid \in 1..NumUuids, commits \in BOOLEAN :
                          LET incident == [run.result EXCEPT !.incident_id = uuid]
                          IN  /\ db' = SaveIncident(db, incident, commits)
                              /\ stats' = [stats EXCEPT
                                    !.patterns_matched = run.patterns_matched,
                                    !.incidents_created = @ + 1]
                              /\ ReaderFinish(w, seen, incident, commits)
    /\ UNCHANGED <<models, entity_last_seen, now>>

InitReload ==
    /\ models \in Catalogs
    /\ entity_state = <<>>
    /\ entity_last_seen = <<>>
    /\ stats = [events_processed |-> 0, incidents_created |-> 0,
                patterns_matched |-> 0]
    /\ db = <<>>
    /\ now = 0
    /\ log = <<>>
    /\ thr = [w \in Threads |-> IF w \in Readers THEN IdleReader ELSE IdleLoader]

NextReload ==
    \E w \in Threads :
        \/ \E files \in Catalogs : ReloadClear(w, files)
        \/ LoadNext(w)
        \/ \E event \in Events : IterStart(w, event)
        \/ IterNext(w)

SpecReload == InitReload /\ [][NextReload]_vars

\* the catalog before the reload, and the catalogs a finished call may have
\* iterated: the old one, or the new one once the reload has loaded it
OldCatalog ==
    LET loader == CHOOSE w \in Threads : w \notin Readers
    IN  IF thr[loader].pc = "idle" THEN models ELSE thr[loader].old

WholeCatalogs ==
    LET loader == CHOOSE w \in Threads : w \notin Readers
    IN  {OldCatalog} \cup (IF thr[loader].pc = "done" THEN {models} ELSE {})

IsPrefix(list, whole) ==
    /\ Len(list) <= Len(whole)
    /\ \A i \in DOMAIN list : list[i] = whole[i]

(***************************************************************************)
(* C11: a process_event call that runs while reload_models runs iterates   *)
(* the whole old catalog or the whole new catalog (up to the model whose   *)
(* incident it returns), never an empty or partly loaded one, and is not   *)
(* broken off by the reload.                                               *)
(***************************************************************************)
C11_ReloadAtomic ==
    \A w \in Readers :
        thr[w].pc = "done" =>
            /\ thr[w].result # Raised
            /\ \E whole \in WholeCatalogs :
                   IF thr[w].result = None THEN thr[w].seen = whole
                   ELSE IsPrefix(thr[w].seen, whole)

(***************************************************************************)
(* process_batch.  A normalized event keeps the raw value of the field     *)
(* that FIELD_MAPPINGS maps to event_type (siem "event_type", falcon       *)
(* "event_simpleName"), and _classify_event_type returns it as it is; a    *)
(* SIEM record whose event type is a number gives an event_type that is    *)
(* an int, on which _match_phase calls .lower().                           *)
(***************************************************************************)
MaxBatches == 2
MaxBatchLen == 2

\* the int 4624 (a value that is not a str)
Int4624 == "int:4624"

IsStr(value) == value # Int4624

SiemLogonEvent(u) == Event("siem", Int4624, u, "", "")

BatchEvents == { EmailEvent("alice"), SiemLogonEvent("alice"), EmailEvent("bob") }

\* the instants at which a batch may arrive, in minutes
BatchTimes == {0, 10}

\* the exception of `.lower()` on an int
AttributeError == [raised |-> "AttributeError"]

Batches ==
    UNION { [1..n -> BatchEvents] : n \in 1..MaxBatchLen }

\* event.get("event_type", "").lower() raises AttributeError on an int; it is
\* the first statement of _match_phase, which runs for the first model of
\* the catalog that has phases
ProcessEventRaises(catalog, event) ==
    /\ ~IsStr(event.event_type)
    /\ \E i \in DOMAIN catalog : catalog[i].correlation_pattern.phases # <<>>

RECURSIVE RunBatch(_, _, _, _, _)
\* the loop of process_batch from the k-th event on; acc is the engine so
\* far, with the incidents list of process_batch
RunBatch(events, k, acc, uuids, commits) ==
    IF k > Len(events) THEN acc
    ELSE
      LET event      == events[k]
          entity_key == ExtractEntityKey(event)
          call       == acc.stats.events_processed + 1
          entered    == [acc EXCEPT
                           !.stats.events_processed = @ + 1,
                           !.entity_last_seen = Put(@, entity_key, acc.time),
                           !.processed = @ + 1]
      IN  IF ProcessEventRaises(acc.catalog, event)
          THEN [entered EXCEPT !.raised = TRUE]
          ELSE
            LET run == RunModels(acc.catalog, 1, event, entity_key,
                                 acc.entity_state, acc.stats.patterns_matched,
                                 acc.time, call, uuids[k])
                ran == [entered EXCEPT
                          !.entity_state = run.entity_state,
                          !.stats.patterns_matched = run.patterns_matched]
            IN  IF run.result = None
                THEN RunBatch(events, k + 1, ran, uuids, commits)
                ELSE RunBatch(events, k + 1,
                              [ran EXCEPT
                                 !.stats.incidents_created = @ + 1,
                                 !.db = SaveIncident(@, run.result, commits[k]),
                                 !.incidents = Append(@, run.result)],
                              uuids, commits)

\* process_batch, run to completion by one caller at the instant t
ProcessBatch(events, t) ==
    /\ Len(log) < MaxBatches
    /\ t > now
    /\ now' = t
    /\ \E uuids \in [DOMAIN events -> 1..NumUuids],
          commits \in [DOMAIN events -> BOOLEAN] :
         LET acc == [catalog |-> models, entity_state |-> entity_state,
                     entity_last_seen |-> entity_last_seen, stats |-> stats,
                     db |-> db, time |-> t, incidents |-> <<>>,
                     raised |-> FALSE, processed |-> 0]
         IN  \E end \in {RunBatch(events, 1, acc, uuids, commits)} :
             /\ entity_state' = end.entity_state
             /\ entity_last_seen' = end.entity_last_seen
             /\ stats' = end.stats
             /\ db' = end.db
             /\ log' = Append(log,
                         [op |-> "process_batch", events |-> events, time |-> t,
                          processed |-> end.processed,
                          result |-> IF end.raised THEN AttributeError
                                     ELSE [incidents |-> end.incidents]])
    /\ UNCHANGED <<models, thr>>

NextBatch ==
    \E events \in Batches, t \in BatchTimes : ProcessBatch(events, t)

SpecBatch == Init /\ [][NextBatch]_vars

(***************************************************************************)
(* C12: an error in one event of a batch does not stop the batch: after    *)
(* process_batch every event of the batch has been processed, so the       *)
(* entity of every event of the batch was seen at the instant of the call. *)
(***************************************************************************)
C12_BatchContinues ==
    Len(log) > 0 =>
        /\ LastCall.processed = Len(LastCall.events)
        /\ \A k \in DOMAIN LastCall.events :
               LET entity_key == ExtractEntityKey(LastCall.events[k])
               IN  /\ entity_key \in DOMAIN entity_last_seen
                   /\ entity_last_seen[entity_key] = LastCall.time

(***************************************************************************)
(* The event normalizer (event_processor.py) followed by the entity        *)
(* resolver.  A raw event is a dict of text fields (a function from the    *)
(* field names it has); the raw events of the model hold no nested dicts   *)
(* and none of the timestamp fields.                                       *)
(***************************************************************************)
\* FIELD_MAPPINGS, each mapping in dict order
FieldMappings(source) ==
    CASE source = "paloalto" ->
           << <<"user", "UserName">>, <<"src_ip", "LocalAddressIP4">>,
              <<"dest_ip", "RemoteAddressIP4">>, <<"src_port", "LocalPort">>,
              <<"dest_port", "RemotePort">>, <<"action", "Action">>,
              <<"device", "DeviceName">> >>
      [] source = "entraid" ->
           << <<"userPrincipalName", "UserName">>, <<"ipAddress", "aip">>,
              <<"location", "Location">>, <<"appDisplayName", "Application">>,
              <<"status", "Status">>,
              <<"deviceDetail.operatingSystem", "OperatingSystem">> >>
      [] source = "falcon" ->
           << <<"ComputerName", "ComputerName">>, <<"UserName", "UserName">>,
              <<"FileName", "FileName">>, <<"CommandLine", "CommandLine">>,
              <<"SHA256HashData", "SHA256HashData">>,
              <<"event_simpleName", "event_type">> >>
      [] source = "siem" ->
           << <<"host", "ComputerName">>, <<"user", "UserName">>,
              <<"source_ip", "aip">>, <<"event_type", "event_type">> >>
      [] OTHER -> <<>>

\* the lists of _extract_common_fields, in the order of the code
CommonFields ==
    << <<"UserName", <<"user", "username", "user_name", "userName", "account",
                       "identity">> >>,
       <<"ComputerName", <<"computer", "hostname", "host", "device", "machine",
                           "endpoint">> >>,
       <<"aip", <<"ip", "ip_address", "ipAddress", "source_ip", "src_ip",
                  "clientIP">> >>,
       <<"FileName", <<"file", "filename", "file_name", "targetFileName",
                       "path">> >>,
       <<"CommandLine", <<"command", "commandline", "cmd", "process_command",
                          "command_line">> >>,
       <<"Action", <<"action", "result", "status", "outcome", "disposition">> >> >>

RECURSIVE ApplyMappings(_, _, _)
\* the loop over mappings.items(): a dotted path finds nothing in a flat dict
ApplyMappings(normalized, raw_event, mappings) ==
    IF mappings = <<>> THEN normalized
    ELSE LET raw_field        == Head(mappings)[1]
             normalized_field == Head(mappings)[2]
         IN  ApplyMappings(IF raw_field \in DOMAIN raw_event
                           THEN Put(normalized, normalized_field,
                                    raw_event[raw_field])
                           ELSE normalized,
                           raw_event, Tail(mappings))

RECURSIVE FirstTruthy(_, _)
\* the first field of the list whose raw value is truthy, "" when there is none
FirstTruthy(raw_event, fields) ==
    IF fields = <<>> THEN ""
    ELSE IF Get(raw_event, Head(fields)) # "" THEN Get(raw_event, Head(fields))
    ELSE FirstTruthy(raw_event, Tail(fields))

RECURSIVE ExtractCommonFields(_, _, _)
\* _extract_common_fields, from the g-th list on
ExtractCommonFields(normalized, raw_event, g) ==
    IF g > Len(CommonFields) THEN normalized
    ELSE LET target == CommonFields[g][1]
             value  == FirstTruthy(raw_event, CommonFields[g][2])
         IN  ExtractCommonFields(IF target \notin DOMAIN normalized /\ value # ""
                                 THEN Put(normalized, target, value)
                                 ELSE normalized,
                                 raw_event, g + 1)

\* the words of str(raw_event): the field names and the values
RawText(raw_event) ==
    (DOMAIN raw_event) \cup { raw_event[f] : f \in DOMAIN raw_event }

\* _classify_event_type
ClassifyEventType(event) ==
    LET raw       == event.raw_event
        raw_lower == { Lower(w) : w \in RawText(raw) }
        cmd       == Lower(Get(event, "CommandLine"))
    IN  IF "event_type" \in DOMAIN event THEN event.event_type
        ELSE IF /\ \E f \in {"UserName", "login", "signin", "authentication"} :
                       f \in DOMAIN event
                /\ (event.source = "entraid" \/ InText("auth", raw_lower))
             THEN "authentication"
        ELSE IF \E f \in {"RemoteAddressIP4", "LocalAddressIP4", "RemotePort"} :
                    f \in DOMAIN event
             THEN "network"
        ELSE IF /\ \E f \in {"CommandLine", "ProcessRollup", "FileName"} :
                       f \in DOMAIN event
                /\ \E proc \in {"powershell", "cmd.exe", "wscript", "rundll32"} :
                       Sub(proc, cmd)
             THEN "process_execution"
        ELSE IF \/ InText("FileWrite", RawText(raw))
                \/ Sub("file", Lower(Get(event, "Action")))
             THEN "file_operation"
        ELSE IF \/ event.source \in {"aws", "azure", "gcp"}
                \/ Sub("cloud", event.source)
             THEN "cloud_operation"
        ELSE IF event.source = "proofpoint" \/ InText("email", raw_lower)
             THEN "email"
        ELSE "unknown"

\* normalize_event; event_id is the uuid4 the call draws
NormalizeEvent(raw_event, source, event_id) ==
    LET base   == [event_id |-> event_id, source |-> Lower(source),
                   timestamp |-> "utcnow", raw_event |-> raw_event]
        mapped == ApplyMappings(base, raw_event, FieldMappings(Lower(source)))
        common == ExtractCommonFields(mapped, raw_event, 1)
    IN  Put(common, "event_type", ClassifyEventType(common))

\* the raw events of the model: a user, a host and an address, each absent
\* or under one of the names some connector uses for it
RawUserFields == {"user", "UserName"}
RawHostFields == {"ComputerName", "device"}
RawIpFields   == {"src_ip"}

Field(names, value) ==
    {<<>>} \cup { [f \in {name} |-> value] : name \in names }

RawEvents ==
    { u @@ h @@ a : u \in Field(RawUserFields, "alice"),
                    h \in Field(RawHostFields, "ws1"),
                    a \in Field(RawIpFields, "10.0.0.1") }

Sources == {"paloalto", "falcon"}

EventIds == {"e1", "e2"}

\* normalize_event followed by _extract_entity_key, as the routes and the
\* ingestion service chain them; the history keeps the two latest calls, and
\* uuid4 does not draw the id of the call before
Resolve(raw_event, source, event_id) ==
    /\ log # <<>> => event_id # log[Len(log)].event.event_id
    /\ \E event \in {NormalizeEvent(raw_event, source, event_id)} :
         LET entry == [op |-> "resolve", raw_event |-> raw_event,
                       source |-> source, event |-> event,
                       entity_key |-> ExtractEntityKey(event)]
         IN  log' = IF log = <<>> THEN <<entry>> ELSE <<log[Len(log)], entry>>
    /\ UNCHANGED <<models, entity_state, entity_last_seen, stats, db, now, thr>>

NextResolve ==
    \E raw_event \in RawEvents, source \in Sources, event_id \in EventIds :
        Resolve(raw_event, source, event_id)

InitResolve == Init /\ models = << RansomwareModel, PhishingModel >>

SpecResolve == InitResolve /\ [][NextResolve]_vars

\* the dimensions _extract_entity_key reads from a normalized event
UserOf(event) ==
    Or(Get(event, "UserName"), Or(Get(event, "UserPrincipalName"), Get(event, "user")))

HostOf(event) ==
    Or(Get(event, "ComputerName"), Or(Get(event, "hostname"), Get(event, "host")))

IpOf(event) ==
    Or(Get(event, "aip"), Or(Get(event, "RemoteAddressIP4"), Get(event, "ip")))

(***************************************************************************)
(* C13: the key is made of the dimensions in the priority user+host, then  *)
(* user+ip, then host, then user, then ip, then the event id; an event     *)
(* with a user and an ip but no host has a key of the user and the ip.     *)
(***************************************************************************)
C13_KeyPriority ==
    \A i \in DOMAIN log :
        LET event == log[i].event
            u     == UserOf(event)
            h     == HostOf(event)
            a     == IpOf(event)
        IN  log[i].entity_key =
                IF u # "" /\ h # "" THEN << <<"user", u>>, <<"host", h>> >>
                ELSE IF u # "" /\ a # "" THEN << <<"user", u>>, <<"ip", a>> >>
                ELSE IF h # "" THEN << <<"host", h>> >>
                ELSE IF u # "" THEN << <<"user", u>> >>
                ELSE IF a # "" THEN << <<"ip", a>> >>
                ELSE << <<"event", event.event_id>> >>

\* the raw field names under which normalize_event finds a dimension for a
\* source: the names FIELD_MAPPINGS maps to it and the names of its list in
\* _extract_common_fields
KnownFields(source, target) ==
    { FieldMappings(source)[i][1] :
          i \in { x \in DOMAIN FieldMappings(source) :
                      FieldMappings(source)[x][2] = target } }
    \cup UNION { Elems(CommonFields[g][2]) :
                     g \in { x \in DOMAIN CommonFields : CommonFields[x][1] = target } }

\* the value a raw event carries for a dimension under a known name, or ""
Carried(raw_event, source, target) ==
    LET fields == (DOMAIN raw_event) \cap KnownFields(source, target)
    IN  IF fields = {} THEN "" ELSE raw_event[CHOOSE f \in fields : TRUE]

(***************************************************************************)
(* C14: two raw events that carry the same user and the same host, each    *)
(* under a field name the normalizer knows for the event's source, get     *)
(* the same entity key from normalize_event and _extract_entity_key,       *)
(* whatever their sources, their address fields and their event ids.       *)
(***************************************************************************)
C14_SameEntitySameKey ==
    \A i \in DOMAIN log, j \in DOMAIN log :
        LET ui == Carried(log[i].raw_event, log[i].source, "UserName")
            hi == Carried(log[i].raw_event, log[i].source, "ComputerName")
            uj == Carried(log[j].raw_event, log[j].source, "UserName")
            hj == Carried(log[j].raw_event, log[j].source, "ComputerName")
        IN  (ui # "" /\ hi # "" /\ ui = uj /\ hi = hj)
                => /\ log[i].entity_key = log[j].entity_key
                   /\ log[i].entity_key = << <<"user", ui>>, <<"host", hi>> >>

C14_Witness ==
    /\ Len(log) = 2
    /\ log[1].source = "paloalto" /\ log[2].source = "falcon"
    /\ log[1].raw_event = [user |-> "alice", device |-> "ws1", src_ip |-> "10.0.0.1"]
    /\ log[2].raw_event = [UserName |-> "alice", ComputerName |-> "ws1"]
    /\ log[1].event.event_id # log[2].event.event_id
    /\ log[1].entity_key = log[2].entity_key
    /\ log[1].entity_key = << <<"user", "alice">>, <<"host", "ws1">> >>

(***************************************************************************)
(* The engine with its internal steps called one by one: process_event,    *)
(* and _clean_old_events, _check_incident_threshold and clear_entity_state *)
(* called directly on the state of one entity, for catalogs of one pattern *)
(* with different numbers of phases, thresholds and windows.               *)
(***************************************************************************)
UnitPhases ==
    << Phase("Delivery",  <<"proofpoint">>, ""),
       Phase("Execution", <<>>,             ""),
       Phase("Impact",    <<>>,             "filewrite *.locked"),
       Phase("Network",   <<"paloalto">>,   ""),
       Phase("Staging",   <<>>,             "") >>

\* "phases within 0-60 minutes: >= 3": the first number of the text is 0
TriggerWindowFirst == [numbers |-> <<0, 60, 3>>]

\* one pattern per catalog: n phases, a window and a trigger condition
PhasesModel(n, win, trig) ==
    CASE n = 1 -> Model("ONE_PHASE_MODEL", SubSeq(UnitPhases, 1, 1), win, trig)
      [] n = 4 -> Model("FOUR_PHASES_MODEL", SubSeq(UnitPhases, 1, 4), win, trig)
      [] OTHER -> Model("FIVE_PHASES_MODEL", UnitPhases, win, trig)

UnitCatalogs ==
    { << PhasesModel(4, Window60, Trigger(2)) >>,
      << PhasesModel(1, Window60, TriggerWindowFirst) >> }

UnitEvents == { EmailEvent("alice"), PowershellEvent("alice") }

UnitTimes == {0, 30, 60, 61}

UnitKeys == { ExtractEntityKey(event) : event \in UnitEvents }

\* the present instant for a call that does not wait
Current == Max(now, 0)

\* _clean_old_events called at the instant t
CleanOldEventsCall(entity_key, model, t) ==
    /\ Len(log) < MaxCalls
    /\ t >= now
    /\ now' = t
    /\ entity_state' = CleanOldEvents(entity_state, entity_key, model.id,
                                      model.correlation_pattern, t)
    /\ log' = Append(log, [op |-> "_clean_old_events", entity_key |-> entity_key,
                           model_id |-> model.id, time |-> t,
                           before |-> StateOf(entity_state, entity_key, model.id),
                           after |-> StateOf(entity_state', entity_key, model.id)])
    /\ UNCHANGED <<models, entity_last_seen, stats, db, thr>>

\* _check_incident_threshold called at the present instant
CheckIncidentThresholdCall(entity_key, model) ==
    /\ Len(log) < MaxCalls
    /\ now' = Current
    /\ LET built == BuildIncident(entity_state, entity_key, model, Current, 0)
       IN  IF built = None
           THEN /\ log' = Append(log, [op |-> "_check_incident_threshold",
                                       entity_key |-> entity_key,
                                       model_id |-> model.id, time |-> Current,
                                       result |-> None, saved |-> FALSE])
                /\ UNCHANGED <<entity_state, db>>
           ELSE \E uuid \in 1..NumUuids, commits \in BOOLEAN :
                  LET incident == [built EXCEPT !.incident_id = uuid]
                  IN  /\ db' = SaveIncident(db, incident, commits)
                      /\ entity_state' = ClearState(entity_state, entity_key,
                                                    model.id)
                      /\ log' = Append(log, [op |-> "_check_incident_threshold",
                                             entity_key |-> entity_key,
                                             model_id |-> model.id,
                                             time |-> Current,
                                             result |-> incident,
                                             saved |-> commits])
    /\ UNCHANGED <<models, entity_last_seen, stats, thr>>

\* the body of clear_entity_state: `if entity_key:` is false for the default
\* None and for the empty string, the key with no part
ClearEntityState(st, entity_key) ==
    IF entity_key # <<>>
    THEN [k \in (DOMAIN st) \ {entity_key} |-> st[k]]
    ELSE <<>>

\* clear_entity_state(entity_key), or clear_entity_state() when not given
ClearEntityStateCall(entity_key, given) ==
    /\ Len(log) < MaxCalls
    /\ now' = Current
    /\ entity_state' = ClearEntityState(entity_state, entity_key)
    /\ log' = Append(log, [op |-> "clear_entity_state", entity_key |-> entity_key,
                           given |-> given, time |-> Current])
    /\ UNCHANGED <<models, entity_last_seen, stats, db, thr>>

\* a new engine over one of the given catalogs
EngineInit(catalogs) ==
    /\ models \in catalogs
    /\ entity_state = <<>>
    /\ entity_last_seen = <<>>
    /\ stats = [events_processed |-> 0, incidents_created |-> 0,
                patterns_matched |-> 0]
    /\ db = <<>>
    /\ now = -1
    /\ log = <<>>
    /\ thr = [w \in Threads |-> IdleThread]

InitUnit == EngineInit(UnitCatalogs)

NextUnit ==
    \/ \E event \in UnitEvents, t \in UnitTimes : ProcessEvent(event, t)
    \/ \E entity_key \in UnitKeys, t \in UnitTimes :
           CleanOldEventsCall(entity_key, models[1], t)
    \/ \E entity_key \in UnitKeys : CheckIncidentThresholdCall(entity_key, models[1])
    \/ \E entity_key \in UnitKeys \cup {<<>>} :
           ClearEntityStateCall(entity_key, entity_key # <<>>)

SpecUnit == InitUnit /\ [][NextUnit]_vars

\* the kind of call a history entry stands for
IsOp(entry, name) ==
    IF "op" \in DOMAIN entry THEN entry.op = name ELSE name = "process_event"

(***************************************************************************)
(* process_event over patterns whose threshold is a different share of     *)
(* their phases: 4 of 5, 3 of 4, 2 of 4 and 2 of 5.                        *)
(***************************************************************************)
ConfidenceCatalogs ==
    { << PhasesModel(5, Window90, Trigger(4)) >>,
      << PhasesModel(4, Window90, Trigger(3)) >>,
      << PhasesModel(4, Window90, Trigger(2)) >>,
      << PhasesModel(5, Window90, Trigger(2)) >> }

ConfidenceEvents ==
    { EmailEvent("alice"), PowershellEvent("alice"), FileWriteEvent("alice"),
      NetworkEvent("alice") }

\* the instants of the calls: all within the 90 minutes of the patterns
ConfidenceTimes == {0, 10, 20, 25}

InitConfidence == EngineInit(ConfidenceCatalogs)

NextConfidence ==
    \E event \in ConfidenceEvents, t \in ConfidenceTimes : ProcessEvent(event, t)

SpecConfidence == InitConfidence /\ [][NextConfidence]_vars

(***************************************************************************)
(* C15: the confidence level of an incident is the bucket of the ratio     *)
(* (distinct phases matched) / (phases of the pattern): high from 0.8,     *)
(* medium from 0.5 and below 0.8, low below 0.5.                           *)
(***************************************************************************)
C15_ConfidenceBuckets ==
    \A i \in DOMAIN log :
        IsIncident(log[i].result) =>
            LET inc     == log[i].result
                matched == Cardinality({ occ.phase : occ \in Elems(inc.events) })
                total   == Len(ModelById(inc.pattern_id).correlation_pattern.phases)
            IN  /\ total > 0
                /\ matched = Len(inc.phases_matched)
                /\ inc.confidence_level =
                       IF 10 * matched >= 8 * total THEN "high"
                       ELSE IF 10 * matched >= 5 * total THEN "medium"
                       ELSE "low"

C15_Witness ==
    \E i \in DOMAIN log :
        /\ IsIncident(log[i].result)
        /\ Len(log[i].result.phases_matched) = 4
        /\ Len(ModelById(log[i].result.pattern_id).correlation_pattern.phases) = 5
        /\ log[i].result.confidence_level = "high"

\* the occurrences a phase dict holds
OccurrencesOf(d) == UNION { Elems(d[i].events) : i \in DOMAIN d }

(***************************************************************************)
(* C16: two calls of _check_incident_threshold in a row for one (entity,   *)
(* pattern), with nothing recorded in between, emit at most one incident,  *)
(* whatever threshold the trigger condition parses to.                     *)
(***************************************************************************)
C16_CheckIdempotent ==
    \A i \in DOMAIN log :
        ( /\ i > 1
          /\ IsOp(log[i - 1], "_check_incident_threshold")
          /\ IsOp(log[i], "_check_incident_threshold")
          /\ log[i].entity_key = log[i - 1].entity_key
          /\ log[i].model_id = log[i - 1].model_id )
        => ~ (IsIncident(log[i - 1].result) /\ IsIncident(log[i].result))

\* one step of the engine seen from the (entity, pattern) pairs: a pair gets
\* its first occurrence only from a process_event call whose event matches a
\* phase of the pattern, and loses its last one only with an incident built
\* for the pair, by a prune when every occurrence is at least as old as the
\* window, or (when withClear) by clear_entity_state
C17_Step(withClear) ==
    LET e == log'[Len(log')]
    IN  \A entity_key \in UnitKeys, i \in DOMAIN models :
          LET model  == models[i]
              before == OccurrencesOf(StateOf(entity_state, entity_key, model.id))
              after  == OccurrencesOf(StateOf(entity_state', entity_key, model.id))
          IN  /\ (before = {} /\ after # {}) =>
                     /\ IsOp(e, "process_event")
                     /\ e.entity_key = entity_key
                     /\ MatchPhase(e.event, model.correlation_pattern.phases) # None
              /\ (before # {} /\ after = {}) =>
                     \/ /\ IsOp(e, "process_event")
                           \/ IsOp(e, "_check_incident_threshold")
                        /\ IsIncident(e.result)
                        /\ e.result.entity_key = entity_key
                        /\ e.result.pattern_id = model.id
                     \/ /\ IsOp(e, "_clean_old_events")
                        /\ e.entity_key = entity_key
                        /\ e.model_id = model.id
                        /\ \A occ \in before :
                               e.time - occ.timestamp >= WindowOf(model)
                     \/ /\ withClear
                        /\ IsOp(e, "clear_entity_state")
                        /\ e.entity_key \in {entity_key, <<>>}

C18_PruneBoundary ==
    \A i \in DOMAIN log :
        IsOp(log[i], "_clean_old_events") =>
            OccurrencesOf(log[i].after) =
                { occ \in OccurrencesOf(log[i].before) :
                      occ.timestamp >=
                          log[i].time - WindowOf(ModelById(log[i].model_id)) }

\* the list keeps the order of the list it was filtered from
InOrderOf(list, from) ==
    LET Survives(occ) == occ \in Elems(list)
    IN  list = SelectSeq(from, Survives)

(***************************************************************************)
(* C19: a second prune of the same (entity, pattern) at the same instant,  *)
(* with nothing recorded in between, leaves the state the first prune      *)
(* left, and a prune leaves the survivors in their arrival order.          *)
(***************************************************************************)
C19_PruneIdempotent ==
    \A i \in DOMAIN log :
        IsOp(log[i], "_clean_old_events") =>
            /\ Len(log[i].after) = Len(log[i].before)
            /\ \A p \in DOMAIN log[i].after :
                   /\ log[i].after[p].name = log[i].before[p].name
                   /\ InOrderOf(log[i].after[p].events, log[i].before[p].events)
            /\ ( /\ i > 1
                 /\ IsOp(log[i - 1], "_clean_old_events")
                 /\ log[i - 1].entity_key = log[i].entity_key
                 /\ log[i - 1].model_id = log[i].model_id
                 /\ log[i - 1].time = log[i].time )
               => /\ log[i].before = log[i - 1].after
                  /\ log[i].after = log[i - 1].after

C19_Witness ==
    /\ Len(log) = 4
    /\ IsOp(log[3], "_clean_old_events") /\ IsOp(log[4], "_clean_old_events")
    /\ log[3].time = log[4].time
    /\ Cardinality(OccurrencesOf(log[3].before)) = 2
    /\ Cardinality(OccurrencesOf(log[3].after)) = 1
    /\ log[4].after = log[3].after

(***************************************************************************)
(* CorrelationEngine (src/src/correlation_engine.py): correlate_events     *)
(* groups the events of one call by entity and builds one incident for     *)
(* every group that reaches confidence_threshold phases.  The engine keeps *)
(* no state but its configuration, held here in stats; now is the wall     *)
(* clock in seconds, the resolution of the identifier; log keeps one       *)
(* record per call.                                                        *)
(***************************************************************************)
MaxCorrelateCalls == 2
MaxCorrelateLen == 2

\* config.get('confidence_threshold', 3)
ConfidenceThresholds == {1, 2}

PatternIds == {"R1", "D1"}

\* the timestamp of an event is its minute
CorrelateEvents ==
    { [UserName |-> "alice", source |-> "proofpoint",
       event_type |-> "email_delivered", timestamp |-> 0],
      [UserName |-> "alice", source |-> "falcon",
       event_type |-> "ProcessRollup2", timestamp |-> 100],
      [UserName |-> "bob", source |-> "falcon",
       event_type |-> "DataStaged", timestamp |-> 0],
      [ComputerName |-> "ws1", source |-> "falcon",
       event_type |-> "ProcessRollup2", timestamp |-> 0] }

TimeWindows == {"short_term", "long_term"}

\* self.correlation_windows.get(time_window, timedelta(minutes=60)), in minutes
CorrelationWindow(time_window) ==
    CASE time_window = "real_time"  -> 15
      [] time_window = "short_term" -> 90
      [] time_window = "long_term"  -> 24 * 60
      [] OTHER -> 60

CorrelateBatches ==
    UNION { [1..n -> CorrelateEvents] : n \in 0..MaxCorrelateLen }

\* the composite key of _group_by_entity, before the "|".join
EntityKeyOf(event) ==
    (IF "UserName" \in DOMAIN event
     THEN << <<"user", event.UserName>> >> ELSE <<>>)
    \o (IF "ComputerName" \in DOMAIN event
        THEN << <<"computer", event.ComputerName>> >> ELSE <<>>)
    \o (IF "aip" \in DOMAIN event THEN << <<"ip", event.aip>> >> ELSE <<>>)

\* a grouping that opens a group for every event
GroupPerEvent(events, groups) ==
    [i \in DOMAIN events |->
        [entity_key |-> EntityKeyOf(events[i]), events |-> <<events[i]>>]]

RECURSIVE GroupByEntity(_, _)
\* _group_by_entity: the groups in the order their first event arrives
GroupByEntity(events, groups) ==
    IF events = <<>> THEN groups
    ELSE LET event      == Head(events)
             entity_key == EntityKeyOf(event)
             known      == { g \in DOMAIN groups : groups[g].entity_key = entity_key }
         IN  GroupByEntity(Tail(events),
                 IF known = {}
                 THEN Append(groups, [entity_key |-> entity_key,
                                      events |-> <<event>>])
                 ELSE [g \in DOMAIN groups |->
                          IF g \in known
                          THEN [groups[g] EXCEPT !.events = Append(@, event)]
                          ELSE groups[g]])

\* the phases one event adds for the pattern
PhasesOfEvent(event, pattern_id) ==
    LET event_type == Get(event, "event_type")
        source     == Get(event, "source")
    IN  CASE pattern_id = "R1" ->
               (IF Sub("email", Lower(source)) \/ Sub("proofpoint", Lower(source))
                THEN {"Initial Access"} ELSE {})
               \cup (IF \/ Sub("ProcessRollup", event_type)
                        \/ Sub("powershell", Lower(Get(event, "CommandLine")))
                     THEN {"Execution"} ELSE {})
               \cup (IF \/ Sub("FileWriteInfo", event_type)
                        \/ Sub("encrypted", Lower(Get(event, "TargetFileName")))
                     THEN {"Impact"} ELSE {})
          [] pattern_id = "D1" ->
               (IF Sub("DataStaged", event_type) THEN {"Collection"} ELSE {})
               \cup (IF Sub("NetworkConnectIP4", event_type)
                     THEN {"Exfiltration"} ELSE {})
               \cup (IF Sub("PutObject", Get(event, "aws_eventName"))
                     THEN {"Impact"} ELSE {})
          [] OTHER -> {}

\* _match_pattern_phases: the set of phases, before list() orders it
MatchPatternPhases(events, pattern_id) ==
    UNION { PhasesOfEvent(events[i], pattern_id) : i \in DOMAIN events }

\* _create_incident: the identifier is the pattern and the second of the clock
CreateIncident(entity_key, matched_events, phases, pattern_id, clock) ==
    [incident_id |-> <<"INC", pattern_id, clock>>,
     pattern_id |-> pattern_id,
     entity_key |-> entity_key,
     phases_matched |-> phases,
     event_count |-> Len(matched_events),
     events |-> matched_events,
     timestamp |-> clock,
     status |-> "open"]

RECURSIVE Correlate(_, _, _, _, _, _)
\* the loop of correlate_events over the groups; the clock gains `tick`
\* seconds between one _create_incident and the next
Correlate(groups, pattern_id, confidence_threshold, clock, tick, acc) ==
    IF groups = <<>> THEN [correlated_incidents |-> acc, clock |-> clock]
    ELSE LET g              == Head(groups)
             phases_matched == MatchPatternPhases(g.events, pattern_id)
         IN  IF Cardinality(phases_matched) >= confidence_threshold
             THEN Correlate(Tail(groups), pattern_id, confidence_threshold,
                            clock + tick, tick,
                            Append(acc, CreateIncident(g.entity_key, g.events,
                                            phases_matched, pattern_id, clock)))
             ELSE Correlate(Tail(groups), pattern_id, confidence_threshold,
                            clock, tick, acc)

\* correlate_events(events, pattern_id, time_window) entered at second t;
\* window is assigned and not read again
CorrelateEventsCall(events, pattern_id, time_window, t, tick) ==
    /\ Len(log) < MaxCorrelateCalls
    /\ t >= now
    /\ \E window \in { CorrelationWindow(time_window) },
          end \in { Correlate(GroupByEntity(events, <<>>), pattern_id,
                              stats.confidence_threshold, t, tick, <<>>) } :
          /\ now' = IF end.correlated_incidents = <<>> THEN t ELSE end.clock - tick
          /\ log' = Append(log, [op |-> "correlate_events", events |-> events,
                                 pattern_id |-> pattern_id,
                                 time_window |-> time_window, time |-> t,
                                 result |-> end.correlated_incidents])
    /\ UNCHANGED <<models, entity_state, entity_last_seen, stats, db, thr>>

InitCorrelate ==
    /\ models = <<>>
    /\ entity_state = <<>>
    /\ entity_last_seen = <<>>
    /\ stats \in { [confidence_threshold |-> c] : c \in ConfidenceThresholds }
    /\ db = <<>>
    /\ now = 0
    /\ log = <<>>
    /\ thr = [w \in Threads |-> IdleThread]

NextCorrelate ==
    \E events \in CorrelateBatches, pattern_id \in PatternIds,
       time_window \in TimeWindows, t \in now..(now + 1), tick \in 0..1 :
        CorrelateEventsCall(events, pattern_id, time_window, t, tick)

SpecCorrelate == InitCorrelate /\ [][NextCorrelate]_vars

(***************************************************************************)
(* C20: two different incidents never carry the same identifier, whether   *)
(* they were synthesized in different calls or for different entities in   *)
(* the same call or the same second.                                       *)
(***************************************************************************)
C20_UniqueIds ==
    \A c1 \in DOMAIN log, c2 \in DOMAIN log :
        \A k1 \in DOMAIN log[c1].result, k2 \in DOMAIN log[c2].result :
            <<c1, k1>> # <<c2, k2>> =>
                log[c1].result[k1].incident_id # log[c2].result[k2].incident_id

\* the step built an incident out of the occurrences that survive in the
\* state of its (entity, pattern): the stored ones inside the window and the
\* one the call recorded
C21_Step ==
    LET e == log'[Len(log')]
    IN  (IsOp(e, "process_event") /\ IsIncident(e.result)) =>
          LET incident == e.result
              model    == ModelById(incident.pattern_id)
              stored   == OccurrencesOf(StateOf(entity_state, e.entity_key,
                                                model.id))
              used     == Elems(incident.events)
              names    == incident.phases_matched
          IN  /\ \A i \in DOMAIN names, j \in DOMAIN names :
                     i # j => names[i] # names[j]
              /\ Elems(names) \subseteq
                     { model.correlation_pattern.phases[i].name :
                           i \in DOMAIN model.correlation_pattern.phases }
              /\ Elems(names) = { occ.phase : occ \in used }
              /\ incident.event_count = Len(incident.events)
              /\ Cardinality(used) = Len(incident.events)
              /\ \E occ \in used : occ.call = e.call /\ occ.event = e.event
              /\ \A occ \in used : occ \in stored \/ occ.call = e.call
              /\ \A occ \in stored :
                     occ.timestamp > e.time - WindowOf(model) => occ \in used
              /\ \A occ \in used : occ.timestamp >= e.time - WindowOf(model)

(***************************************************************************)
(* C21: phases_matched of an incident holds, once each, the names of the   *)
(* phases of the pattern that have a surviving occurrence when the         *)
(* incident is built; event_count is the number of those occurrences and   *)
(* events holds one entry for each of them.                                *)
(***************************************************************************)
C21_IncidentContent == [][C21_Step]_vars

C21_Witness ==
    \E i \in DOMAIN log :
        /\ IsIncident(log[i].result)
        /\ Len(log[i].result.phases_matched) >= 2
        /\ \E j \in 1..(i - 1) :
               /\ log[j].entity_key = log[i].entity_key
               /\ log[i].time - log[j].time >= 90

(***************************************************************************)
(* The engine with its queries: process_event, clear_entity_state,         *)
(* get_stats and get_entity_state, for three entities and catalogs of two  *)
(* patterns.                                                               *)
(***************************************************************************)
QueryCatalogs ==
    { << PhishingModel, RansomwareModel >>,
      << RansomwareModel, RansomwareLiteModel >> }

\* the network event of carol satisfies no phase of these catalogs
QueryEvents == { EmailEvent("alice"), EmailEvent("bob"), NetworkEvent("carol") }

QueryTimes == {0, 10}

QueryKeys == { ExtractEntityKey(event) : event \in QueryEvents }

\* get_stats
GetStats ==
    [events_processed  |-> stats.events_processed,
     incidents_created |-> stats.incidents_created,
     patterns_matched  |-> stats.patterns_matched,
     active_entities   |-> Cardinality(DOMAIN entity_state),
     loaded_models     |-> Len(models)]

\* entity_state[entity_key] on the defaultdict: a missing key is created
Indexed(st, entity_key) ==
    IF entity_key \in DOMAIN st THEN st ELSE Put(st, entity_key, <<>>)

\* a get_entity_state that indexes the dict before it tests the key
GetEntityStateIndexed(st, entity_key) ==
    [entity_state |-> Indexed(st, entity_key),
     result |-> IF entity_key \notin DOMAIN st THEN <<>>
                ELSE [model_id \in DOMAIN st[entity_key] |->
                         [i \in DOMAIN st[entity_key][model_id] |->
                             [name |-> st[entity_key][model_id][i].name,
                              count |-> Len(st[entity_key][model_id][i].events)]]]]

\* get_entity_state: the number of occurrences per pattern and phase
GetEntityState(st, entity_key) ==
    IF entity_key \notin DOMAIN st
    THEN [entity_state |-> st, result |-> <<>>]
    ELSE [entity_state |-> Indexed(st, entity_key),
          result |-> [model_id \in DOMAIN st[entity_key] |->
                         [i \in DOMAIN st[entity_key][model_id] |->
                             [name |-> st[entity_key][model_id][i].name,
                              count |-> Len(st[entity_key][model_id][i].events)]]]]

GetStatsCall ==
    /\ Len(log) < MaxCalls
    /\ now' = Current
    /\ log' = Append(log, [op |-> "get_stats", time |-> Current,
                           result |-> GetStats])
    /\ UNCHANGED <<models, entity_state, entity_last_seen, stats, db, thr>>

GetEntityStateCall(entity_key) ==
    /\ Len(log) < MaxCalls
    /\ now' = Current
    /\ \E got \in {GetEntityState(entity_state, entity_key)} :
          /\ entity_state' = got.entity_state
          /\ log' = Append(log, [op |-> "get_entity_state",
                                 entity_key |-> entity_key, time |-> Current,
                                 result |-> got.result])
    /\ UNCHANGED <<models, entity_last_seen, stats, db, thr>>

InitQuery == EngineInit(QueryCatalogs)

NextQuery ==
    \/ \E event \in QueryEvents, t \in QueryTimes : ProcessEvent(event, t)
    \/ \E entity_key \in QueryKeys \cup {<<>>}, given \in BOOLEAN :
           /\ (entity_key # <<>> => given)
           /\ ClearEntityStateCall(entity_key, given)
    \/ GetStatsCall
    \/ \E entity_key \in QueryKeys : GetEntityStateCall(entity_key)

SpecQuery == InitQuery /\ [][NextQuery]_vars

\* the (entity, pattern) pairs that hold at least one occurrence
ActivePairs(st) ==
    { <<entity_key, model_id>> \in
          UNION { {entity_key} \X DOMAIN st[entity_key] : entity_key \in DOMAIN st } :
        OccurrencesOf(st[entity_key][model_id]) # {} }

(***************************************************************************)
(* C22: the counter of active states that get_stats reports is the number  *)
(* of (entity, pattern) states that hold at least one occurrence; a state  *)
(* emptied by an incident or by pruning is not counted.                    *)
(***************************************************************************)
C22_ActiveStates ==
    [][LET e == log'[Len(log')]
       IN  IsOp(e, "get_stats") =>
               e.result.active_entities = Cardinality(ActivePairs(entity_state))]_vars

(***************************************************************************)
(* C23: clear_entity_state(key) removes the occurrences of that entity for *)
(* every pattern and leaves every other entity and the counters as they    *)
(* were, so an unknown key changes nothing; clear_entity_state() without a *)
(* key removes the state of all entities.                                  *)
(***************************************************************************)
C23_ClearFrame ==
    [][LET e == log'[Len(log')]
       IN  IsOp(e, "clear_entity_state") =>
             /\ stats' = stats
             /\ IF ~e.given
                THEN entity_state' = <<>>
                ELSE /\ DOMAIN entity_state' = (DOMAIN entity_state) \ {e.entity_key}
                     /\ \A k \in DOMAIN entity_state' :
                            entity_state'[k] = entity_state[k]]_vars

(***************************************************************************)
(* normalize_event on raw events that carry the user under several names   *)
(* at once, some of them with an empty value.                              *)
(***************************************************************************)
\* one value per field name, so that the normalized value tells its origin
NormalizeRawEvents ==
    { u @@ v @@ w : u \in Field({"UserName"}, "alice") \cup Field({"UserName"}, ""),
                    v \in Field({"user"}, "bob") \cup Field({"user"}, ""),
                    w \in Field({"account"}, "carol") }

NextNormalize ==
    \E raw_event \in NormalizeRawEvents, source \in Sources \cup {"syslog"},
       event_id \in EventIds :
        Resolve(raw_event, source, event_id)

SpecNormalize == InitResolve /\ [][NextNormalize]_vars

\* the value of the raw field that FIELD_MAPPINGS maps to the target for the
\* source, or "" when the source maps none or the raw event has none
MappedValue(raw_event, source, target) ==
    LET mappings == FieldMappings(Lower(source))
        fields   == { mappings[i][1] :
                        i \in { x \in DOMAIN mappings : mappings[x][2] = target } }
                    \cap DOMAIN raw_event
    IN  IF fields = {} THEN "" ELSE raw_event[CHOOSE f \in fields : TRUE]

(***************************************************************************)
(* C24: for every canonical field the normalized event holds the value of  *)
(* the source-mapped raw field when that value is not empty, and otherwise *)
(* the first non-empty value of the synonym list; an empty value of an     *)
(* earlier field does not hide a non-empty value of a later one.           *)
(***************************************************************************)
C24_FirstNonEmptyWins ==
    \A i \in DOMAIN log, g \in DOMAIN CommonFields :
        IsOp(log[i], "resolve") =>
            LET target   == CommonFields[g][1]
                explicit == MappedValue(log[i].raw_event, log[i].source, target)
                synonym  == FirstTruthy(log[i].raw_event, CommonFields[g][2])
                expected == IF explicit # "" THEN explicit ELSE synonym
            IN  expected # "" => Get(log[i].event, target) = expected

\* the positions of the events of a call that carry the entity key
Members(events, entity_key) ==
    { i \in DOMAIN events : EntityKeyOf(events[i]) = entity_key }

\* the events at the positions, in the order of the list
Picked(events, positions) ==
    LET At(i) == i \in positions
        idx   == SelectSeq([i \in DOMAIN events |-> i], At)
    IN  [n \in DOMAIN idx |-> events[idx[n]]]

\* the positions of a list of events that lie pairwise within the window
Within(events, window) ==
    { S \in SUBSET DOMAIN events :
        \A a \in S, b \in S :
            events[a].timestamp - events[b].timestamp <= window }

(***************************************************************************)
(* C25: the phases that bring an incident of correlate_events to the       *)
(* threshold come from events of the entity that lie within the window     *)
(* chosen by time_window; events further apart than the window do not add  *)
(* up to the threshold of one incident.                                    *)
(***************************************************************************)
C25_WindowBounds ==
    \A c \in DOMAIN log :
        IsOp(log[c], "correlate_events") =>
            \A k \in DOMAIN log[c].result :
                LET incident == log[c].result[k]
                IN  \E S \in Within(incident.events,
                                    CorrelationWindow(log[c].time_window)) :
                        Cardinality(MatchPatternPhases(Picked(incident.events, S),
                                                       log[c].pattern_id))
                            >= stats.confidence_threshold

(***************************************************************************)
(* C26: correlate_events returns one incident for every entity group of    *)
(* the input whose events match at least confidence_threshold phases of    *)
(* the pattern and none for the other groups; every event is in the one    *)
(* group of its entity key, and the events of an incident are the events   *)
(* of its group.                                                           *)
(***************************************************************************)
C26_OneIncidentPerGroup ==
    \A c \in DOMAIN log :
        IsOp(log[c], "correlate_events") =>
            LET events == log[c].events
                result == log[c].result
                keys   == { EntityKeyOf(events[i]) : i \in DOMAIN events }
            IN  /\ \A entity_key \in keys :
                       LET group  == Picked(events, Members(events, entity_key))
                           phases == MatchPatternPhases(group, log[c].pattern_id)
                           built  == { k \in DOMAIN result :
                                           result[k].entity_key = entity_key }
                       IN  /\ Cardinality(built) =
                                  IF Cardinality(phases) >= stats.confidence_threshold
                                  THEN 1 ELSE 0
                           /\ \A k \in built :
                                  /\ result[k].events = group
                                  /\ result[k].phases_matched = phases
                /\ \A k \in DOMAIN result :
                       /\ result[k].entity_key \in keys
                       /\ \A i \in DOMAIN result[k].events :
                              EntityKeyOf(result[k].events[i]) = result[k].entity_key

C26_Witness ==
    \E c \in DOMAIN log :
        /\ IsOp(log[c], "correlate_events")
        /\ Len(log[c].events) = 2
        /\ Len(log[c].result) = 1
        /\ Len(log[c].result[1].events) = 2
        /\ stats.confidence_threshold = 2

\* the process_event calls of the history that returned an incident
IncidentCalls == { i \in DOMAIN log : IsIncident(log[i].result) }

(***************************************************************************)
(* C27: a process_event call returns, and persists, at most one incident;  *)
(* after any sequence of calls events_processed is the number of calls,    *)
(* incidents_created is the number of calls that returned an incident and  *)
(* is at most events_processed and at most patterns_matched.               *)
(***************************************************************************)
C27_Counters ==
    /\ stats.events_processed = Len(log)
    /\ stats.incidents_created = Cardinality(IncidentCalls)
    /\ stats.incidents_created <= stats.events_processed
    /\ stats.incidents_created <= stats.patterns_matched
    /\ Len(db) <= stats.incidents_created
    /\ \A i \in IncidentCalls :
           Cardinality({ k \in DOMAIN db : db[k].created_at = log[i].time }) <= 1

C27_Witness ==
    /\ Len(log) = MaxCalls
    /\ stats.incidents_created >= 2
    /\ stats.patterns_matched > stats.incidents_created
    /\ stats.events_processed > stats.incidents_created
    /\ Len(db) >= 1

\* the event satisfies no phase of any pattern of the catalog
MatchesNothing(event) ==
    \A i \in DOMAIN models :
        \/ models[i].correlation_pattern.phases = <<>>
        \/ MatchPhase(event, models[i].correlation_pattern.phases) = None

(***************************************************************************)
(* C28: a process_event call whose event satisfies no phase of any loaded  *)
(* pattern leaves entity_state as it was, with no entry for the entity of  *)
(* the event; get_stats and get_entity_state leave entity_state as it was, *)
(* also when the entity asked for was never seen.                          *)
(***************************************************************************)
C28_NoMatchNoState ==
    [][LET e == log'[Len(log')]
       IN  /\ (IsOp(e, "process_event") /\ MatchesNothing(e.event))
                  => /\ entity_state' = entity_state
                     /\ e.result = None
           /\ (IsOp(e, "get_stats") \/ IsOp(e, "get_entity_state"))
                  => /\ entity_state' = entity_state
                     /\ stats' = stats
           /\ (IsOp(e, "get_entity_state") /\ e.entity_key \notin DOMAIN entity_state)
                  => /\ e.entity_key \notin DOMAIN entity_state'
                     /\ e.result = <<>>]_vars

C28_Witness ==
    /\ Len(log) = 4
    /\ IsOp(log[1], "process_event") /\ ~MatchesNothing(log[1].event)
    /\ IsOp(log[2], "process_event") /\ MatchesNothing(log[2].event)
    /\ IsOp(log[3], "get_entity_state")
    /\ log[3].entity_key = log[2].entity_key
    /\ IsOp(log[4], "get_stats")
    /\ DOMAIN entity_state = {log[1].entity_key}
    /\ ActivePairs(entity_state) # {}

(***************************************************************************)
(* EventIngestionService.process_events (services/event_ingestion.py).     *)
(* db is the database seen through the session of the call: the events     *)
(* table, the incidents table and the set of events whose processed flag   *)
(* is set in the session and not yet committed.  The engine of a call      *)
(* shares that session: the commit of _save_incident commits the flags set *)
(* so far, and its rollback discards them (the session expires every       *)
(* object it holds).  entity_state is the state of the engine of the       *)
(* latest call.                                                            *)
(***************************************************************************)
MaxIngestCalls == 3

Devices == {"d1", "d2"}

IngestCatalog == << RansomwareModel, PhishingModel >>

\* the events tables collect_from_device may have left: two events of the
\* first device and one of the second, all unprocessed
StoredEvents ==
    { [id \in 1..3 |->
          [device_id |-> IF id < 3 THEN "d1" ELSE "d2",
           normalized_data |-> evs[id], processed |-> FALSE]] :
      evs \in [1..3 -> { EmailEvent("alice"), PowershellEvent("alice"),
                         FileWriteEvent("alice") }] }

\* DetectionEngine(db): the state of a new engine
NewEngineState(st) == <<>>

\* the query for the unprocessed events of the device, in id order
Unprocessed(table, device_id) ==
    LET Wanted(id) == table[id].device_id = device_id /\ ~table[id].processed
    IN  SelectSeq([id \in DOMAIN table |-> id], Wanted)

\* the session commits: the flags set so far reach the table
Committed(table, pending) ==
    [id \in DOMAIN table |->
        IF id \in pending THEN [table[id] EXCEPT !.processed = TRUE]
        ELSE table[id]]

RECURSIVE RunIngest(_, _, _, _, _)
\* the loop of process_events from the k-th fetched event on
RunIngest(fetched, k, acc, uuids, commits) ==
    IF k > Len(fetched) THEN acc
    ELSE
      LET event      == acc.events[fetched[k]].normalized_data
          entity_key == ExtractEntityKey(event)
          run == RunModels(IngestCatalog, 1, event, entity_key,
                           acc.entity_state, 0, acc.time,
                           <<acc.call, k>>, uuids[k])
          saved ==
              IF run.result = None THEN acc
              ELSE IF commits[k]
              THEN [acc EXCEPT
                      !.events = Committed(@, acc.pending),
                      !.incidents = SaveIncident(@, run.result, TRUE),
                      !.pending = {}]
              ELSE [acc EXCEPT !.pending = {}]
      IN  RunIngest(fetched, k + 1,
                    [saved EXCEPT
                       !.entity_state = run.entity_state,
                       !.pending = @ \cup {fetched[k]},
                       !.results = Append(@, run.result)],
                    uuids, commits)

\* process_events(device_id, db) at the instant t; the commit that ends the
\* call succeeds
ProcessEvents(device_id, t) ==
    /\ Len(log) < MaxIngestCalls
    /\ t > now
    /\ now' = t
    /\ LET fetched == Unprocessed(db.events, device_id)
       IN  IF fetched = <<>>
           THEN /\ log' = Append(log, [op |-> "process_events",
                                       device_id |-> device_id, time |-> t,
                                       fetched |-> <<>>, results |-> <<>>])
                /\ UNCHANGED <<entity_state, db>>
           ELSE \E uuids \in [DOMAIN fetched -> 1..NumUuids],
                   commits \in [DOMAIN fetched -> BOOLEAN] :
                  LET acc == [events |-> db.events, incidents |-> db.incidents,
                              pending |-> {},
                              entity_state |-> NewEngineState(entity_state),
                              time |-> t, call |-> Len(log) + 1,
                              results |-> <<>>]
                  IN  \E end \in {RunIngest(fetched, 1, acc, uuids, commits)} :
                        /\ entity_state' = end.entity_state
                        /\ db' = [events |-> Committed(end.events, end.pending),
                                  incidents |-> end.incidents]
                        /\ log' = Append(log, [op |-> "process_events",
                                               device_id |-> device_id,
                                               time |-> t, fetched |-> fetched,
                                               results |-> end.results])
    /\ UNCHANGED <<models, entity_last_seen, stats, thr>>

IngestTimes == {0, 10, 20}

InitIngest ==
    /\ models = IngestCatalog
    /\ entity_state = <<>>
    /\ entity_last_seen = <<>>
    /\ stats = [events_processed |-> 0, incidents_created |-> 0,
                patterns_matched |-> 0]
    /\ db \in { [events |-> table, incidents |-> <<>>] : table \in StoredEvents }
    /\ now = -1
    /\ log = <<>>
    /\ thr = [w \in Threads |-> IdleThread]

NextIngest ==
    \E device_id \in Devices, t \in IngestTimes : ProcessEvents(device_id, t)

SpecIngest == InitIngest /\ [][NextIngest]_vars

(***************************************************************************)
(* C29: every process_events call works with an engine of its own, so an   *)
(* incident it returns is built only from occurrences recorded in that     *)
(* call, whatever earlier calls recorded for the same or another device;   *)
(* and every event a call fetched has processed = True when the call ends. *)
(***************************************************************************)
C29_FreshEngineAllProcessed ==
    [][LET c == Len(log')
           e == log'[c]
       IN  IsOp(e, "process_events") =>
             /\ \A k \in DOMAIN e.results :
                    IsIncident(e.results[k]) =>
                        \A occ \in Elems(e.results[k].events) : occ.call[1] = c
             /\ \A k \in DOMAIN e.fetched :
                    db'.events[e.fetched[k]].processed]_vars

(***************************************************************************)
(* get_detection_engine (routes/detection_routes.py).  The module global   *)
(* _detection_engine is stats._detection_engine: 0 for None, else the      *)
(* number of an engine.  entity_state, entity_last_seen and stats.of hold, *)
(* per engine created, the fields of that engine.  A request runs on a     *)
(* worker thread; the test, the constructor, the assignment and the return *)
(* of get_detection_engine are separate steps, as no lock is held.         *)
(***************************************************************************)
MaxRequests == 3

RequestEvents == { PowershellEvent("alice"), FileWriteEvent("alice") }

IdleRequest == [pc |-> "idle", event |-> None, engine |-> 0]

\* the route process_event is entered: the event is normalized and
\* get_detection_engine(db) is called
RouteProcessEvent(w, event) ==
    /\ thr[w].pc = "idle"
    /\ stats.requests < MaxRequests
    /\ stats' = [stats EXCEPT !.requests = @ + 1]
    /\ thr' = [thr EXCEPT ![w] = [pc |-> "test", event |-> event, engine |-> 0]]
    /\ UNCHANGED <<models, entity_state, entity_last_seen, db, now, log>>

\* if _detection_engine is None
GetDetectionEngineTest(w) ==
    /\ thr[w].pc = "test"
    /\ thr' = [thr EXCEPT ![w].pc =
                  IF stats._detection_engine = 0 THEN "create" ELSE "return"]
    /\ UNCHANGED <<models, entity_state, entity_last_seen, stats, db, now, log>>

\* DetectionEngine(db): a new engine with empty state
GetDetectionEngineCreate(w) ==
    /\ thr[w].pc = "create"
    /\ entity_state' = Append(entity_state, <<>>)
    /\ entity_last_seen' = Append(entity_last_seen, <<>>)
    /\ stats' = [stats EXCEPT !.of = Append(@,
                    [events_processed |-> 0, incidents_created |-> 0,
                     patterns_matched |-> 0])]
    /\ thr' = [thr EXCEPT ![w] = [@ EXCEPT !.pc = "assign",
                                           !.engine = Len(entity_state) + 1]]
    /\ UNCHANGED <<models, db, now, log>>

\* _detection_engine = the engine just built
GetDetectionEngineAssign(w) ==
    /\ thr[w].pc = "assign"
    /\ stats' = [stats EXCEPT !._detection_engine = thr[w].engine]
    /\ thr' = [thr EXCEPT ![w].pc = "return"]
    /\ UNCHANGED <<models, entity_state, entity_last_seen, db, now, log>>

\* return _detection_engine: the global is read again
GetDetectionEngineReturn(w) ==
    /\ thr[w].pc = "return"
    /\ thr' = [thr EXCEPT ![w] = [@ EXCEPT !.pc = "use",
                                           !.engine = stats._detection_engine]]
    /\ UNCHANGED <<models, entity_state, entity_last_seen, stats, db, now, log>>

\* engine.process_event(normalized_event) on the engine the request got
EngineProcessEvent(w) ==
    /\ thr[w].pc = "use"
    /\ now' = now + 1
    /\ LET event      == thr[w].event
           engine     == thr[w].engine
           entity_key == ExtractEntityKey(event)
           call       == Len(log) + 1
           own        == stats.of[engine]
       IN  \E run \in {RunModels(models, 1, event, entity_key,
                                 entity_state[engine], own.patterns_matched,
                                 now + 1, call, 0)} :
           /\ entity_state' = [entity_state EXCEPT ![engine] = run.entity_state]
           /\ entity_last_seen' = [entity_last_seen EXCEPT ![engine] =
                                      Put(@, entity_key, now + 1)]
           /\ stats' = [stats EXCEPT !.of[engine] =
                          [events_processed  |-> own.events_processed + 1,
                           incidents_created |-> own.incidents_created
                                 + (IF run.result # None THEN 1 ELSE 0),
                           patterns_matched  |-> run.patterns_matched]]
           /\ IF run.result = None
              THEN /\ db' = db
                   /\ log' = Append(log, [op |-> "route_process_event",
                                          engine |-> engine, event |-> event,
                                          incident |-> None])
              ELSE \E uuid \in 1..NumUuids, commits \in BOOLEAN :
                     LET incident == [run.result EXCEPT !.incident_id = uuid]
                     IN  /\ db' = SaveIncident(db, incident, commits)
                         /\ log' = Append(log, [op |-> "route_process_event",
                                                engine |-> engine,
                                                event |-> event,
                                                incident |-> incident])
    /\ thr' = [thr EXCEPT ![w] = IdleRequest]
    /\ UNCHANGED models

InitSingleton ==
    /\ models = IngestCatalog
    /\ entity_state = <<>>
    /\ entity_last_seen = <<>>
    /\ stats = [_detection_engine |-> 0, of |-> <<>>, requests |-> 0]
    /\ db = <<>>
    /\ now = -1
    /\ log = <<>>
    /\ thr = [w \in Threads |-> IdleRequest]

NextSingleton ==
    \E w \in Threads :
       \/ \E event \in RequestEvents : RouteProcessEvent(w, event)
       \/ GetDetectionEngineTest(w)
       \/ GetDetectionEngineCreate(w)
       \/ GetDetectionEngineAssign(w)
       \/ GetDetectionEngineReturn(w)
       \/ EngineProcessEvent(w)

SpecSingleton == InitSingleton /\ [][NextSingleton]_vars

(***************************************************************************)
(* C30: whatever the interleaving of the first calls, at most one engine   *)
(* is ever created, and every event a request has processed was recorded   *)
(* in the engine that later requests get, the current _detection_engine.   *)
(***************************************************************************)
C30_OneEngine ==
    /\ Len(entity_state) <= 1
    /\ \A k \in DOMAIN log :
          IsOp(log[k], "route_process_event") =>
              log[k].engine = stats._detection_engine

====
